---- MODULE Spec2Model ----
(***************************************************************************)
(* Multi-source MCP tool aggregation of the AIOps agent runtime:           *)
(*   agents/mcp_manager.py   load_mcp_config, create_mcp_clients           *)
(*   agents/runtime_base.py  create_app.invoke (agents/runtime.py: invoke  *)
(*                           is the same body without the OTEL context)    *)
(* One invocation is a sequential flow: gateway step, one loop iteration   *)
(* per configured descriptor, the agent call, then the ExitStack unwinding *)
(* (one registered callback per step) and the finally clause.              *)
(* External collaborators (SSM, the gateway API, MCPClient, the agent)     *)
(* are nondeterministic: every call either returns or raises an Exception. *)
(***************************************************************************)
EXTENDS Naturals, Integers, Sequences, FiniteSets, TLC

\* ------------------------------------------------------------------ bounds

\* Longest mcp_servers list of a configuration.
MaxServers == 2

\* Most pieces a string value of an env / headers mapping is made of.
MaxParts == 5

\* Most pieces a raw gateway tool name is made of.
MaxNameParts == 5

\* Most invocations of one app in a row.
MaxInvocations == 2

\* ------------------------------------------------------------- data model

\* Marker of a key that is missing from a mapping of the YAML document.
Absent == "absent"

\* Local @tool functions handed to create_app at construction.
LocalTools == <<"L1", "L2">>

\* What each remote source answers list_tools_sync with, by the name of its
\* descriptor: the order is the source's own (not sorted), and names collide
\* with a local tool and across sources.
RemoteTools(name) ==
    IF name = "A" THEN <<"t2", "L1">>
    ELSE IF name = "B" THEN <<"t1">>
    ELSE <<"t1", "g1">>

\* Connection id of the gateway client; source i of mcp_servers has id i.
Gateway == 0

\* Entries of mcp_servers that are mappings (descriptors of section 6).
Descriptors ==
    { [shape |-> "dict", name |-> "A", enabled |-> "true", transport |-> "stdio"],
      [shape |-> "dict", name |-> "B", enabled |-> "true", transport |-> "streamable_http"],
      [shape |-> "dict", name |-> "A", enabled |-> "false", transport |-> "stdio"],
      [shape |-> "dict", name |-> "B", enabled |-> "true", transport |-> "sse"],
      [shape |-> "dict", name |-> Absent, enabled |-> "true", transport |-> Absent],
      [shape |-> "dict", name |-> "B", enabled |-> Absent, transport |-> "streamable_http"],
      [shape |-> "dict", name |-> "A", enabled |-> "false", transport |-> "sse"] }

\* An entry of mcp_servers that is a YAML scalar, not a mapping.
ScalarEntry == [shape |-> "str", name |-> Absent, enabled |-> Absent, transport |-> Absent]

SeqsUpTo(S, n) == UNION { [1..k -> S] : k \in 0..n }

\* The gateway key of the document: missing, or {enabled: true/false}.
GatewayValues == {Absent, "enabled_true", "enabled_false"}

\* Documents of the shape of section 6 (keys may be missing: yaml.safe_load
\* of an empty document gives {}).
TypedConfigs ==
    { [top |-> "dict", gateway |-> g, servers_key |-> k, mcp_servers |-> s] :
        g \in GatewayValues, k \in {"list"}, s \in SeqsUpTo(Descriptors, MaxServers) }
    \cup
    { [top |-> "dict", gateway |-> g, servers_key |-> Absent, mcp_servers |-> <<>>] :
        g \in GatewayValues }

\* What yaml.safe_load(f) or {} may also return: a document that is no mapping,
\* a gateway or mcp_servers key with a null or scalar value, entries of
\* mcp_servers that are no mappings.
LoadedDocuments ==
    TypedConfigs
    \cup
    { [top |-> "dict", gateway |-> g, servers_key |-> "list", mcp_servers |-> s] :
        g \in GatewayValues \cup {"null", "scalar"},
        s \in SeqsUpTo(Descriptors \cup {ScalarEntry}, MaxServers) }
    \cup
    { [top |-> "dict", gateway |-> g, servers_key |-> "null", mcp_servers |-> <<>>] :
        g \in GatewayValues }
    \cup
    { [top |-> "list", gateway |-> Absent, servers_key |-> Absent, mcp_servers |-> <<>>] }

\* Paths a configuration can be looked for at: CONFIG_PATH and one other.
Paths == {"default", "custom"}

\* The mcp_config_path argument: None, the empty string, or the other path.
ConfigPathArgs == {"None", "", "custom"}

\* What a path can be on disk: nothing, a directory, a file that is not YAML,
\* a file holding an empty document, a file holding a document.
FileStates == {"missing", "directory", "malformed", "empty", "document"}

\* The literal load_mcp_config returns for a path that does not exist.
DefaultConfig ==
    [top |-> "dict", gateway |-> "enabled_false", servers_key |-> "list",
     mcp_servers |-> <<>>]

\* The {} that replaces a falsy yaml.safe_load result.
EmptyDict ==
    [top |-> "dict", gateway |-> Absent, servers_key |-> Absent, mcp_servers |-> <<>>]

\* mcp_config before create_app has assigned it.
NoConfig ==
    [top |-> "unset", gateway |-> Absent, servers_key |-> Absent, mcp_servers |-> <<>>]

\* Documents a file on disk may hold (at most one entry in mcp_servers).
DiskDocuments == { d \in LoadedDocuments : Len(d.mcp_servers) <= 1 }

\* path = config_path or CONFIG_PATH.
EffectivePath(cp) == IF cp \in {"None", ""} THEN "default" ELSE cp

\* Mutant of LoadMcpConfig: the file is opened without the os.path.exists test.
LoadMcpConfigNoExistsTest(cp, files, content) ==
    LET path == EffectivePath(cp) IN
    IF files[path] \in {"missing", "directory", "malformed"}
    THEN [raised |-> TRUE, value |-> NoConfig]
    ELSE IF files[path] = "empty" THEN [raised |-> FALSE, value |-> EmptyDict]
    ELSE [raised |-> FALSE, value |-> content]

\* Mutant of LoadMcpConfig: a file that cannot be read gives the default.
LoadMcpConfigLenient(cp, files, content) ==
    LET path == EffectivePath(cp) IN
    IF files[path] \in {"missing", "directory", "malformed"}
    THEN [raised |-> FALSE, value |-> DefaultConfig]
    ELSE IF files[path] = "empty" THEN [raised |-> FALSE, value |-> EmptyDict]
    ELSE [raised |-> FALSE, value |-> content]

\* load_mcp_config(config_path) on the disk state files, content being the
\* document of the file when it holds one: open raises IsADirectoryError on a
\* directory, yaml.safe_load raises YAMLError on malformed text, and nothing
\* catches either.
LoadMcpConfig(cp, files, content) ==
    LET path == EffectivePath(cp) IN
    IF files[path] = "missing" THEN [raised |-> FALSE, value |-> DefaultConfig]
    ELSE IF files[path] \in {"directory", "malformed"}
         THEN [raised |-> TRUE, value |-> NoConfig]
    ELSE IF files[path] = "empty" THEN [raised |-> FALSE, value |-> EmptyDict]
    ELSE [raised |-> FALSE, value |-> content]

\* Names the process environment may hold, as character sequences.
EnvNames == { <<"A">>, <<"x">> }

\* The value of a name that is set: x is set to the empty string.
EnvValue(name) == IF name = <<"A">> THEN <<"v">> ELSE <<>>

\* Pieces the string values of a mapping are made of.
Parts == { <<"$", "{">>, <<"}">>, <<"A">>, <<"$">>, <<"x">> }

\* Concatenation of a sequence of pieces.
RECURSIVE Flatten(_)
Flatten(ps) == IF ps = <<>> THEN <<>> ELSE Head(ps) \o Flatten(Tail(ps))

\* String values: character sequences of at most MaxParts pieces.
StringValues == { Flatten(ps) : ps \in SeqsUpTo(Parts, MaxParts) }

\* A value that is not a string (a YAML list), with its str() text.
ListValue == [type |-> "list", text |-> <<"[", "$", "{", "A", "}", "]">>]

\* A mapping with no keys.
NoMapping == [k \in {} |-> [type |-> "str", text |-> <<>>]]

\* env / headers mappings: a string under TOKEN, and possibly a list under ARGS.
Mappings ==
    { [k \in {"TOKEN"} |-> [type |-> "str", text |-> v]] : v \in StringValues }
    \cup
    { [k \in {"TOKEN", "ARGS"} |->
         IF k = "TOKEN" THEN [type |-> "str", text |-> v] ELSE ListValue] :
      v \in StringValues }

\* Pieces a gateway tool name is made of.
NameParts == { <<"_", "_", "_">>, <<"_">>, <<"x">>, <<"y">> }

\* Raw tool names: character sequences of at most MaxNameParts pieces.
RawNames == { Flatten(ps) : ps \in SeqsUpTo(NameParts, MaxNameParts) }

\* Keys of TOOL_REGISTRY.
ToolRegistry == { <<"x">>, <<"y">>, <<"x", "_", "y">> }

\* What the Lambda context can carry: no client_context, a client_context
\* whose custom is None, a custom mapping without the key, or the name.
ClientContexts == {"no_client_context", "custom_none", "key_missing", "named"}

\* Requests: for a context that is not "named" the name is not looked at.
Requests ==
    { [ctx |-> c, raw_name |-> <<>>, event |-> e] :
        c \in ClientContexts \ {"named"}, e \in {"dict", "not_dict"} }
    \cup
    { [ctx |-> "named", raw_name |-> r, event |-> e] :
        r \in RawNames, e \in {"dict", "not_dict"} }

\* Before a request has arrived / before lambda_handler has returned.
NoRequest == [ctx |-> "none", raw_name |-> <<>>, event |-> "none"]

NoResponse == [done |-> FALSE, statusCode |-> 0, body |-> [json |-> "none"]]

\* json.dumps(value): the encoded text of value.
JsonDumps(value) == [json |-> value]

\* Inbound request contexts: context None, request_headers None, or a header map.
HeaderMaps == { {<<"Authorization", "">>}, {<<"Authorization", "Bearer tok">>} }

Contexts ==
    { [is_none |-> TRUE, headers_none |-> TRUE, headers |-> {}],
      [is_none |-> FALSE, headers_none |-> TRUE, headers |-> {}] }
    \cup { [is_none |-> FALSE, headers_none |-> FALSE, headers |-> h] : h \in HeaderMaps }

VARIABLES
    mcp_config,   \* the document load_mcp_config returned at create_app
    pc,           \* position of the invocation
    context,      \* the context argument of the invocation
    auth_header,  \* invoke's local auth_header
    all_tools,    \* invoke's local all_tools
    stack,        \* ExitStack._exit_callbacks: connection ids, registration order
    idx,          \* create_mcp_clients: index of the next server of the loop
    tools,        \* create_mcp_clients' local tools
    pending,      \* exception in flight: "none", "agent", "close", "config"
    result,       \* outcome of the invocation: "none", "returned", "raised"
    otel,         \* OTEL session context: "detached", "attached", "unavailable"
    log,          \* lines printed
    events,       \* calls made on the collaborators, in order
    config_path,  \* create_app's mcp_config_path argument
    fs,           \* what is on disk at each path when create_app runs
    load,         \* outcome of load_mcp_config: "none", "returned", "raised"
    environ,      \* os.environ: the names that are set
    env,          \* _resolve_env's argument
    resolved,     \* _resolve_env: whether it returned, and what
    request,      \* lambda_handler's arguments: the client context and the event
    response,     \* lambda_handler: whether it returned, and what
    calls,        \* calls lambda_handler made on registry functions
    local_tools,  \* create_app's tools argument, held by invoke's closure
    inv,          \* number of the current invocation on this app
    conn_params,  \* env / headers the clients of this invocation were built with
    env_at_load,  \* os.environ as it was when create_app loaded the config
    prev,         \* the previous invocation: the agent's tool list, the parameters
    flight,       \* concurrent invocations: position, loop index, header of each
    scopes,       \* concurrent invocations: the callbacks of each ExitStack
    closed,       \* concurrent invocations: which invocation released which connection
    has_psycopg2, \* steampipe_tools._HAS_PSYCOPG2
    sp_pc,        \* position of one _run_steampipe_query call
    sp_calls,     \* the query engines it called, with what each returned
    sp_result,     \* what _run_steampipe_query returned
    resource_type,\* list_resources_by_type: the resource_type argument
    limit,        \* list_resources_by_type: the limit argument
    pages,        \* what AWS holds: pages of groups (reservations) of resources
    page_no,      \* index of the next page of the paginator
    collected,    \* the list built so far (instances, functions, volumes)
    ls_pc,        \* position of the call
    ls_result,     \* what list_resources_by_type returned
    file_path,    \* read_config: the extension of the file_path argument
    on_disk,      \* what is at file_path: "missing", "directory", "file"
    file_text,      \* what the file holds
    rc_pc,        \* position of the call
    rc_out,        \* outcome of the call: returned a document or raised
    http_client,  \* MCPToolClient._http_client: "none", "open", "closed"
    local_processes,\* MCPToolClient._local_processes: pairs <<server name, process>>
    procs,        \* the processes Popen started: server and "running", "exited", "terminated"
    mc_pc,        \* the async context: "created", "entered", "exited", "exit_raised"
    last_call,    \* the last local call_tool: what it found and what it did
    ncalls,        \* number of call_tool calls made
    iam_pc,       \* position of the call
    poll_log,     \* outcome of each get_credential_report call, in order
    sleeps,       \* number of time.sleep(2) calls
    report,       \* the rows of the report that was fetched
    iam_result,    \* what get_iam_credential_report returned
    auth_user,    \* st.session_state["auth_user"]: NoUser or the user
    auth_challenge,\* st.session_state has auth_challenge = NEW_PASSWORD_REQUIRED
    auth_challenge_username,\* st.session_state["auth_challenge_username"]
    pending_confirmation,\* st.session_state["pending_confirmation"]: NoUser or the name
    chat_agent,   \* st.session_state["agent"]: "absent", "None", "agent"
    chat_messages,\* st.session_state["messages"]: absent, or their number
    chat_session_id,\* st.session_state["chat_session_id"]: "absent", "set"
    gate,         \* what require_auth returned in the last script run
    cognito,      \* the Cognito call of the last script run and its outcome
    last_run      \* what the user did in the last script run

\* Set by create_app, left alone by an invocation.
loadvars == <<config_path, fs, load>>

\* State of the invocations that are in flight at the same time.
concvars == <<flight, scopes, closed>>

\* What lasts from one invocation to the next, and the record of the last one.
seqvars == <<local_tools, inv, conn_params, env_at_load, prev>>

\* State of the gateway Lambda dispatcher.
lambdavars == <<request, response, calls>>

\* State of one _resolve_env call.
envvars == <<env, resolved>>

\* State of one _run_steampipe_query call.
steampipevars == <<has_psycopg2, sp_pc, sp_calls, sp_result>>

\* State of one list_resources_by_type call.
inventoryvars == <<resource_type, limit, pages, page_no, collected, ls_pc, ls_result>>

\* State of one read_config call.
readvars == <<file_path, on_disk, file_text, rc_pc, rc_out>>

\* State of one MCPToolClient.
clientvars == <<http_client, local_processes, procs, mc_pc, last_call, ncalls>>

\* State of one get_iam_credential_report call.
iamvars == <<iam_pc, poll_log, sleeps, report, iam_result>>

\* State of one dashboard session.
authvars == <<auth_user, auth_challenge, auth_challenge_username,
              pending_confirmation, chat_agent, chat_messages, chat_session_id, gate, cognito, last_run>>

\* State of the agent runtime and of the gateway Lambda.
runtimevars == <<mcp_config, pc, context, auth_header, all_tools, stack, idx, tools,
                 pending, result, otel, log, events, loadvars, environ, envvars,
                 lambdavars, seqvars, concvars>>

\* State of the components outside the agent runtime: the tools, the MCP
\* tool client and the dashboard.
sidevars == <<steampipevars, inventoryvars, readvars, clientvars, iamvars, authvars>>

vars == <<runtimevars, sidevars>>

\* Everything but the state of the steampipe query engine.
OutsideSteampipe ==
    <<runtimevars, inventoryvars, readvars, clientvars, iamvars, authvars>>

\* Everything but the state of the resource inventory.
OutsideInventory ==
    <<runtimevars, steampipevars, readvars, clientvars, iamvars, authvars>>

\* Everything but the state of read_config.
OutsideReadConfig ==
    <<runtimevars, steampipevars, inventoryvars, clientvars, iamvars, authvars>>

\* Everything but the state of the MCP tool client.
OutsideClient ==
    <<runtimevars, steampipevars, inventoryvars, readvars, iamvars, authvars>>

\* Everything but the state of the IAM credential report.
OutsideIam ==
    <<runtimevars, steampipevars, inventoryvars, readvars, clientvars, authvars>>

\* Everything but the state of the dashboard session.
OutsideAuth ==
    <<runtimevars, steampipevars, inventoryvars, readvars, clientvars, iamvars>>

\* ------------------------------------------------- helpers of the handlers

\* One call made on a collaborator: op, the connection it concerns, whether
\* it returned (ok) or raised, and the tool list it returned or was given.
Ev(op, conn, ok, tl) == [op |-> op, conn |-> conn, ok |-> ok, tools |-> tl]

\* One printed line.
Line(kind, name, transport, n) ==
    [kind |-> kind, name |-> name, transport |-> transport, n |-> n]

\* request_headers.get("Authorization", "") over (context.request_headers or {}).
AuthHeader(ctx) ==
    IF ctx.is_none \/ ctx.headers_none THEN ""
    ELSE IF \E h \in ctx.headers : h[1] = "Authorization"
         THEN (CHOOSE h \in ctx.headers : h[1] = "Authorization")[2]
         ELSE ""

\* mcp_config.get("gateway", {}).get("enabled") raises AttributeError when the
\* document is not a mapping or its gateway value is not one.
GatewayLookupRaises(cfg) ==
    cfg.top # "dict" \/ cfg.gateway \in {"null", "scalar"}

\* Truth value of mcp_config.get("gateway", {}).get("enabled").
GatewayEnabled(cfg) == cfg.gateway = "enabled_true"

\* Mutant of GatewayCondition: the Authorization header is not looked at.
GatewayConditionNoAuth(cfg, auth) == GatewayEnabled(cfg)

\* The condition of the gateway step.
GatewayCondition(cfg, auth) == GatewayEnabled(cfg) /\ auth # ""

\* for server in config.get("mcp_servers", []) raises TypeError on a null value.
ServersIterRaises(cfg) == cfg.servers_key = "null"

\* Mutant of Servers: the list is walked from its end.
ServersReversed(cfg) ==
    IF cfg.servers_key = Absent THEN <<>>
    ELSE [k \in 1..Len(cfg.mcp_servers) |->
            cfg.mcp_servers[Len(cfg.mcp_servers) + 1 - k]]

\* config.get("mcp_servers", []).
Servers(cfg) == IF cfg.servers_key = Absent THEN <<>> ELSE cfg.mcp_servers

\* server.get("enabled", False) raises AttributeError on an entry that is no mapping.
ServerGetRaises(server) == server.shape # "dict"

\* Mutant of ServerEnabled: a missing enabled key defaults to True.
ServerEnabledDefaultTrue(server) == server.enabled # "false"

\* Truth value of server.get("enabled", False).
ServerEnabled(server) == server.enabled = "true"

\* server.get("name", "unknown").
ServerName(server) == IF server.name = Absent THEN "unknown" ELSE server.name

\* server.get("transport"): None when the key is missing.
ServerTransport(server) == IF server.transport = Absent THEN "None" ELSE server.transport

\* Mutant of Recognized: the second branch is a plain else, so every named
\* transport that is not stdio gets an HTTP client.
RecognizedElseHttp(transport) == transport # "None"

\* The transports the if/elif chain creates a client for.
Recognized(transport) == transport \in {"stdio", "streamable_http"}

\* Mutant of ServerExceptionCaught: the try block ends after the factory call.
ServerExceptionCaughtCreateOnly(kind) == kind = "create_fail"

\* except Exception around one descriptor's creation, connection and listing.
ServerExceptionCaught(kind) == kind \in {"create_fail", "enter_fail", "list_fail"}

\* except Exception around the gateway step.
GatewayExceptionCaught(kind) ==
    kind \in {"ssm_fail", "get_gateway_fail", "enter_fail", "list_fail"}

\* Mutant of Extend: the new tools are put in front.
ExtendFront(a, b) == b \o a

\* list.extend.
Extend(a, b) == a \o b

\* Outcomes of the try block of the descriptor called name: the first call
\* that raises, or success with the tool list the source returned.
ConnectOutcomes(name) ==
    { [kind |-> k, tools |-> <<>>] : k \in {"create_fail", "enter_fail", "list_fail"} }
    \cup { [kind |-> "ok", tools |-> RemoteTools(name)] }

\* Outcomes of the gateway try block.
GatewayOutcomes ==
    { [kind |-> k, tools |-> <<>>] :
        k \in {"ssm_fail", "get_gateway_fail", "enter_fail", "list_fail"} }
    \cup { [kind |-> "ok", tools |-> RemoteTools("Gateway")] }

\* Mutant of ConnectEvents: a client whose listing failed is closed on the spot.
ConnectEventsCloseOnFailure(c, o) ==
    IF o.kind = "create_fail" THEN << Ev("create", c, FALSE, <<>>) >>
    ELSE IF o.kind = "enter_fail"
         THEN << Ev("create", c, TRUE, <<>>), Ev("enter", c, FALSE, <<>>) >>
    ELSE IF o.kind = "list_fail"
         THEN << Ev("create", c, TRUE, <<>>), Ev("enter", c, TRUE, <<>>),
                 Ev("list", c, FALSE, <<>>), Ev("exit", c, TRUE, <<>>) >>
    ELSE << Ev("create", c, TRUE, <<>>), Ev("enter", c, TRUE, <<>>),
            Ev("list", c, TRUE, o.tools) >>

\* Calls one descriptor's try block makes on client c under outcome o:
\* the factory, exit_stack.enter_context, list_tools_sync.
ConnectEvents(c, o) ==
    IF o.kind = "create_fail" THEN << Ev("create", c, FALSE, <<>>) >>
    ELSE IF o.kind = "enter_fail"
         THEN << Ev("create", c, TRUE, <<>>), Ev("enter", c, FALSE, <<>>) >>
    ELSE IF o.kind = "list_fail"
         THEN << Ev("create", c, TRUE, <<>>), Ev("enter", c, TRUE, <<>>),
                 Ev("list", c, FALSE, <<>>) >>
    ELSE << Ev("create", c, TRUE, <<>>), Ev("enter", c, TRUE, <<>>),
            Ev("list", c, TRUE, o.tools) >>

\* Calls of the gateway try block: get_ssm_parameter, get_gateway, then the client.
GatewayEvents(o) ==
    IF o.kind = "ssm_fail" THEN << Ev("get_ssm_parameter", Gateway, FALSE, <<>>) >>
    ELSE IF o.kind = "get_gateway_fail"
         THEN << Ev("get_ssm_parameter", Gateway, TRUE, <<>>),
                 Ev("get_gateway", Gateway, FALSE, <<>>) >>
    ELSE << Ev("get_ssm_parameter", Gateway, TRUE, <<>>),
            Ev("get_gateway", Gateway, TRUE, <<>>) >>
         \o ConnectEvents(Gateway, o)

\* Mutant of Registers: the client is registered after its tools were listed.
RegistersAfterListing(o) == o.kind = "ok"

\* enter_context registers the client once __enter__ has returned.
Registers(o) == o.kind \in {"list_fail", "ok"}

\* Mutant of PopCallback: first-in first-out.
PopCallbackFifo(st) == [conn |-> st[1], rest |-> SubSeq(st, 2, Len(st))]

\* ExitStack.__exit__ pops callbacks last-in first-out.
PopCallback(st) == [conn |-> st[Len(st)], rest |-> SubSeq(st, 1, Len(st) - 1)]

\* Mutant of AfterCallback: unwinding stops at the first callback that raises.
AfterCallbackStops(rest, raised) == IF raised THEN <<>> ELSE rest

\* ExitStack.__exit__ goes on with the remaining callbacks after one has raised.
AfterCallback(rest, raised) == rest

\* ExitStack.__exit__ re-raises the last exception a callback raised; MCPClient's
\* __exit__ returns None, so an exception in flight is never suppressed.
PendingAfterCallback(p, raised) == IF raised THEN "close" ELSE p

\* os.getenv(name, default).
Getenv(name, default, environment) ==
    IF name \in environment THEN EnvValue(name) ELSE default

\* Where a match of _ENV_VAR_RE that starts at position i of s ends, 0 when
\* there is none: "${", one or more characters other than "}", then "}".
MatchEnd(s, i) ==
    IF /\ i + 3 <= Len(s)
       /\ s[i] = "$"
       /\ s[i + 1] = "{"
       /\ s[i + 2] # "}"
       /\ \E j \in (i + 3)..Len(s) : s[j] = "}"
    THEN CHOOSE j \in (i + 3)..Len(s) :
            s[j] = "}" /\ \A k \in (i + 2)..(j - 1) : s[k] # "}"
    ELSE 0

\* _ENV_VAR_RE.sub(lambda m: os.getenv(m.group(1), m.group(0)), value) from
\* position i on: matches are taken leftmost first and do not overlap, and the
\* replacement text is not scanned again.
RECURSIVE Sub(_, _, _)
Sub(s, i, environment) ==
    IF i > Len(s) THEN <<>>
    ELSE LET j == MatchEnd(s, i) IN
         IF j = 0 THEN <<s[i]>> \o Sub(s, i + 1, environment)
         ELSE Getenv(SubSeq(s, i + 2, j - 1), SubSeq(s, i, j), environment)
              \o Sub(s, j + 1, environment)

\* _resolve_env(env): strings are substituted, other values become str(value).
ResolveEnv(mapping, environment) ==
    [k \in DOMAIN mapping |->
        IF mapping[k].type = "str"
        THEN [type |-> "str", text |-> Sub(mapping[k].text, 1, environment)]
        ELSE [type |-> "str", text |-> mapping[k].text]]

\* Least position from which on the separator "___" occurs in s at or after
\* position from, 0 when there is none.
FindSeparator(s, from) ==
    LET At(i) == s[i] = "_" /\ s[i + 1] = "_" /\ s[i + 2] = "_"
        Hits == { i \in from..(Len(s) - 2) : At(i) }
    IN IF Hits = {} THEN 0 ELSE CHOOSE i \in Hits : \A h \in Hits : i <= h

\* raw_name.split("___")[1] if "___" in raw_name else raw_name: split cuts at
\* every occurrence, leftmost first, and [1] is the piece after the first cut.
ExtractToolName(raw_name) ==
    LET first == FindSeparator(raw_name, 1) IN
    IF first = 0 THEN raw_name
    ELSE LET second == FindSeparator(raw_name, first + 3) IN
         IF second = 0 THEN SubSeq(raw_name, first + 3, Len(raw_name))
         ELSE SubSeq(raw_name, first + 3, second - 1)

\* Mutant of RegistryGet: an unknown name falls back to a registered function.
RegistryGetFallback(tool_name) ==
    IF tool_name \in ToolRegistry THEN tool_name ELSE <<"x">>

\* TOOL_REGISTRY.get(tool_name): the function, named by its key, or None.
RegistryGet(tool_name) ==
    IF tool_name \in ToolRegistry THEN tool_name ELSE <<"None">>

\* params = event if isinstance(event, dict) else {}.
Params(event) == IF event = "dict" THEN "event" ELSE "empty"

\* What a registry function returns when it returns.
ToolResult(handler, params) == [result_of |-> handler, params |-> params]

\* all_tools = list(tools): a new list with the elements of the closure's.
ListCopy(l) == [k \in 1..Len(l) |-> l[k]]

\* Mutant of ClosureTools: all_tools is the closure's list itself, not a copy.
ClosureToolsAliased(closure, extended) == extended

\* The closure's tools list after all_tools has been extended: all_tools is a
\* copy, so the extension does not reach it.
ClosureTools(closure, extended) == closure

\* server.get("env", {}) of a stdio descriptor, server.get("headers", {}) of an
\* http one, by the name of the descriptor.
ServerEnv(server) ==
    IF ServerTransport(server) = "stdio"
    THEN [k \in {"TOKEN"} |-> [type |-> "str", text |-> <<"$", "{", "A", "}">>]]
    ELSE [k \in {"Authorization"} |->
            [type |-> "str", text |-> <<"x", "$", "{", "A", "}">>]]

\* Names the placeholders of the descriptors refer to.
TemplateNames == { <<"A">> }

\* Mutant of ResolutionEnvironment: placeholders are resolved with the
\* environment of the time the configuration was loaded.
ResolutionEnvironmentAtLoad(at_load, now) == at_load

\* The environment _resolve_env reads: os.getenv is called inside the factory,
\* when the client is built.
ResolutionEnvironment(at_load, now) == now

\* No previous invocation.
NoPrev == [tools |-> <<>>, params |-> <<>>]

\* Invocations of one app that are in flight at the same time.
Flights == {"A", "B"}

\* An invocation that has not started.
NoFlight == [pc |-> "idle", idx |-> 1, auth_header |-> ""]

\* Mutant of ScopeOf: one ExitStack, created with the app, serves every
\* invocation.
ScopeOfApp(i) == "A"

\* The ExitStack invocation i registers into and unwinds: the one its own
\* with statement created.
ScopeOf(i) == i

\* attach_session_context: the context is attached and its token returned, or
\* None is returned when opentelemetry cannot be imported.
AttachSessionContext(o) == IF o = "unavailable" THEN o ELSE "attached"

\* detach_session_context: a no-op for the token None.
DetachSessionContext(o) == IF o = "attached" THEN "detached" ELSE o

\* Mutant of Finally: the context is detached after the try statement, so
\* only when no exception is in flight.
FinallyOnReturnOnly(o, p) == IF p = "none" THEN DetachSessionContext(o) ELSE o

\* finally: detach_session_context(otel_token), whatever is in flight (p).
Finally(o, p) == DetachSessionContext(o)

\* ------------------------------------------------- steampipe query engine

\* Longest error message, in words.
MaxWords == 3

\* Words of the error messages psycopg2 reports. A message is a sequence of
\* words; a phrase is contained in it when its words occur next to each other.
Words == {"Connection", "refused", "could", "not", "connect", "timeout"}

ErrorMessages == { m \in SeqsUpTo(Words, MaxWords) : m # <<>> }

\* Messages of psycopg2.connect when the service cannot be connected to:
\* refused (nothing listens on the port), or no answer within connect_timeout.
ConnectMessages ==
    { <<"could", "not", "connect">>, <<"Connection", "refused">>, <<"timeout">> }

\* str.lower.
Lower(m) == [i \in DOMAIN m |-> IF m[i] = "Connection" THEN "connection" ELSE m[i]]

\* phrase in message.
Contains(m, phrase) ==
    \E i \in 1..(Len(m) - Len(phrase) + 1) :
        SubSeq(m, i, i + Len(phrase) - 1) = phrase

\* The result dictionaries: success, data, error (the query is the same in all).
Success(data) == [success |-> TRUE, data |-> data, error |-> <<>>]
Failure(message) == [success |-> FALSE, data |-> "none", error |-> message]
NoResult == [success |-> FALSE, data |-> "unset", error |-> <<>>]

\* What a call to the PostgreSQL service can come to: connect raised, the
\* query raised on a connection that was made, or rows were fetched.
PgOutcomes ==
    { [phase |-> "connect", message |-> m] : m \in ConnectMessages }
    \cup { [phase |-> "query", message |-> m] : m \in ErrorMessages }
    \cup { [phase |-> "rows", message |-> <<>>] }

\* _run_steampipe_query_pg: every exception becomes a failure result.
RunSteampipeQueryPg(o) ==
    IF o.phase = "rows" THEN Success("pg_rows") ELSE Failure(o.message)

\* What the steampipe CLI subprocess can come to.
CliOutcomes == {"json", "text", "nonzero", "timeout", "not_installed", "bad_json"}

\* _run_steampipe_query_subprocess.
RunSteampipeQuerySubprocess(o) ==
    IF o = "json" THEN Success("cli_json")
    ELSE IF o = "text" THEN Success("cli_text")
    ELSE IF o = "nonzero" THEN Failure(<<"stderr">>)
    ELSE IF o = "timeout" THEN Failure(<<"Query", "timeout">>)
    ELSE IF o = "not_installed" THEN Failure(<<"Steampipe", "not", "installed">>)
    ELSE Failure(<<"JSON", "parse", "error">>)

\* _run_steampipe_query's test for the fallback on a failed service result.
FallsBack(res) ==
    LET err == Lower(res.error) IN
    \/ Contains(err, <<"could", "not", "connect">>)
    \/ Contains(err, <<"connection", "refused">>)

\* ------------------------------------------------- resource inventory

\* Largest limit argument, number of pages, groups of a page, resources of a group.
MaxLimit == 2
MaxPages == 2
MaxGroups == 2
MaxGroupSize == 2

\* limit arguments: an int, not validated.
Limits == -1..MaxLimit

SupportedTypes == {"ec2", "s3", "rds", "lambda", "vpc", "security_group", "ebs"}

\* Types whose listing walks a paginator; the others slice one response.
PaginatedTypes == {"ec2", "lambda", "ebs"}

ResourceTypes == SupportedTypes \cup {"unknown"}

\* A page of describe_instances holds reservations, each with its instances;
\* a page of the other paginators, and the single response of the sliced
\* types, holds one list. A group is the number of resources it holds.
PagesOf(t) ==
    IF t = "ec2" THEN SeqsUpTo(SeqsUpTo(0..MaxGroupSize, MaxGroups), MaxPages)
    ELSE IF t \in PaginatedTypes THEN SeqsUpTo([1..1 -> 0..MaxGroupSize], MaxPages)
    ELSE IF t \in SupportedTypes THEN [1..1 -> [1..1 -> 0..MaxGroupSize]]
    ELSE {<<>>}

\* The result dictionaries.
Listing(t, items) ==
    [keys |-> {"resource_type", "count", "resources"}, resource_type |-> t,
     count |-> Len(items), resources |-> items, error |-> ""]
ListingError(t) ==
    [keys |-> {"resource_type", "error"}, resource_type |-> t,
     count |-> 0, resources |-> <<>>, error |-> "exception"]
UnknownType ==
    [keys |-> {"error"}, resource_type |-> "", count |-> 0, resources |-> <<>>,
     error |-> "Unknown resource type"]
NoListing ==
    [keys |-> {}, resource_type |-> "", count |-> 0, resources |-> <<>>, error |-> ""]

\* The resources a..b, in the order AWS returns them.
Range(a, b) == [i \in 1..(b - a + 1) |-> a + i - 1]

\* lst[:limit].
Slice(lst, lim) ==
    IF lim >= 0 THEN SubSeq(lst, 1, IF lim < Len(lst) THEN lim ELSE Len(lst))
    ELSE SubSeq(lst, 1, Len(lst) + lim)

\* Inner loop: append each of the n resources of a group, and break once
\* len(items) >= limit.
RECURSIVE AppendGroup(_, _, _)
AppendGroup(items, n, lim) ==
    IF n = 0 THEN items
    ELSE LET it == Append(items, Len(items) + 1) IN
         IF Len(it) >= lim THEN it ELSE AppendGroup(it, n - 1, lim)

\* Loop over the groups of a page: the inner loop, then break once
\* len(items) >= limit.
RECURSIVE AppendPage(_, _, _)
AppendPage(items, page, lim) ==
    IF page = <<>> THEN items
    ELSE LET it == AppendGroup(items, Head(page), lim) IN
         IF Len(it) >= lim THEN it ELSE AppendPage(it, Tail(page), lim)

\* ------------------------------------------------- read_config

\* Extensions of the file_path argument, as written.
Extensions == {".json", ".JSON", ".yaml", ".YML", ".conf", ""}

\* str.lower on an extension.
LowerExt(e) == IF e = ".JSON" THEN ".json" ELSE IF e = ".YML" THEN ".yml" ELSE e

\* What a file holds: a JSON document (which is a YAML document too), a YAML
\* document that is no JSON, text that is neither, bytes that are no UTF-8.
Contents == {"json_doc", "yaml_doc", "neither", "not_utf8"}

\* Base classes of the exception classes read_config can raise.
Bases(cls) ==
    IF cls = "JSONDecodeError" THEN {"JSONDecodeError", "ValueError", "Exception"}
    ELSE IF cls = "UnicodeDecodeError" THEN {"UnicodeDecodeError", "ValueError", "Exception"}
    ELSE IF cls = "YAMLError" THEN {"YAMLError", "Exception"}
    ELSE IF cls = "FileNotFoundError" THEN {"FileNotFoundError", "OSError", "Exception"}
    ELSE IF cls = "IsADirectoryError" THEN {"IsADirectoryError", "OSError", "Exception"}
    ELSE {cls}

Returned(parser, doc) == [kind |-> "returned", parser |-> parser, doc |-> doc, exc |-> "none"]
Raised(cls) == [kind |-> "raised", parser |-> "none", doc |-> "none", exc |-> cls]
NoOutcome == [kind |-> "none", parser |-> "none", doc |-> "none", exc |-> "none"]

\* json.load / json.loads on the file's text.
JsonLoad(c) ==
    IF c = "not_utf8" THEN Raised("UnicodeDecodeError")
    ELSE IF c = "json_doc" THEN Returned("json", c)
    ELSE Raised("JSONDecodeError")

\* yaml.safe_load on the file's text.
YamlSafeLoad(c) ==
    IF c = "not_utf8" THEN Raised("UnicodeDecodeError")
    ELSE IF c \in {"json_doc", "yaml_doc"} THEN Returned("yaml", c)
    ELSE Raised("YAMLError")

\* ------------------------------------------------- MCP tool client

\* Number of call_tool calls made on one client.
MaxCalls == 3

\* config.mcp_servers' keys, and the server names call_tool is given.
ConfiguredServers == {"aws-ccapi", "aws-docs"}
ServerNames == ConfiguredServers \cup {"unknown"}

\* No process: dict lookup found nothing, Popen started nothing.
NoProcess == 0

\* self._local_processes.get(name), NoProcess when name is not a key.
Tracked(d, name) ==
    IF \E e \in d : e[1] = name THEN (CHOOSE e \in d : e[1] = name)[2] ELSE NoProcess

\* self._local_processes[name] = process.
DictSet(d, name, process) == { e \in d : e[1] # name } \cup {<<name, process>>}

\* Mutant of NeedsSpawn: a server is started on every call.
NeedsSpawnAlways(d, ps, name) == TRUE

\* _get_or_start_server starts a process unless one is tracked under the
\* name and its poll() is None.
NeedsSpawn(d, ps, name) ==
    ~(Tracked(d, name) # NoProcess /\ ps[Tracked(d, name)].state = "running")

\* Popen.terminate: a signal to a process that runs, nothing otherwise.
Terminate(p) == IF p.state = "running" THEN [p EXCEPT !.state = "terminated"] ELSE p

NoCall ==
    [server |-> "", before |-> NoProcess, was_running |-> FALSE,
     outcome |-> "none", process |-> NoProcess, started |-> NoProcess]

\* ------------------------------------------------- IAM credential report

\* range(10): the number of get_credential_report attempts.
MaxAttempts == 10

\* Largest number of users of a report.
MaxUsers == 2

\* A row of the report: the columns the analysis reads.
UserRows == [password_enabled : BOOLEAN, mfa_active : BOOLEAN]

Reports == SeqsUpTo(UserRows, MaxUsers)

\* What one get_credential_report call comes to.
PollOutcomes == {"report", "not_ready", "exception"}

\* Mutant of Retries: every exception of a poll is retried.
RetriesOnAnyException(outcome) == outcome # "report"

\* except client.exceptions.CredentialReportNotReadyException: sleep, go on.
Retries(outcome) == outcome = "not_ready"

\* sum(1 for u in users if u["password_enabled"] and not u["mfa_active"]).
RECURSIVE UsersWithoutMfa(_)
UsersWithoutMfa(rows) ==
    IF rows = <<>> THEN 0
    ELSE (IF Head(rows).password_enabled /\ ~Head(rows).mfa_active THEN 1 ELSE 0)
         + UsersWithoutMfa(Tail(rows))

\* The result dictionaries.
Analysis(rows) ==
    [kind |-> "analysis", total_users |-> Len(rows),
     users_without_mfa |-> UsersWithoutMfa(rows), error |-> ""]
ReportError(message) ==
    [kind |-> "error", total_users |-> 0, users_without_mfa |-> 0, error |-> message]
NoReport == [kind |-> "none", total_users |-> 0, users_without_mfa |-> 0, error |-> ""]

\* ------------------------------------------------- dashboard authentication

\* Largest number of chat messages of a session.
MaxMessages == 3

\* None as the value of auth_user and of require_auth.
NoUser == "None"

\* User names of the pool.
Users == {"alice", "bob"}

\* What initiate_auth comes to: AuthenticationResult, the
\* NEW_PASSWORD_REQUIRED challenge, another challenge, or an exception.
InitiateAuthOutcomes == {"tokens", "new_password_required", "other_challenge", "exception"}

\* login's return value: the user with tokens, the challenge, or None.
Login(username, outcome) ==
    IF outcome = "new_password_required" THEN [kind |-> "challenge", username |-> username]
    ELSE IF outcome = "tokens" THEN [kind |-> "tokens", username |-> username]
    ELSE [kind |-> "None", username |-> NoUser]

\* respond_to_new_password_challenge's return value.
RespondToNewPasswordChallenge(username, succeeds) ==
    IF succeeds THEN [kind |-> "tokens", username |-> username]
    ELSE [kind |-> "None", username |-> NoUser]

\* Mutant of LoginSetsUser: every result of login is stored as the user.
LoginSetsUserOnAnyResult(res) == res.kind # "None"

\* _show_login_form stores login's result as auth_user when it is a result
\* and no challenge.
LoginSetsUser(res) == res.kind # "None" /\ res.kind # "challenge"

\* One chat message: the role, and what the content is (an example question,
\* typed text, the agent's answer, the text of the agent's error).
Message(role, what) == [role |-> role, content |-> what]

\* st.session_state["messages"]: the key is absent, or the list of messages.
NoMessages == [present |-> FALSE, list |-> <<>>]
Messages(list) == [present |-> TRUE, list |-> list]

\* The last message is the user's: the page asks the agent for an answer.
AwaitsAnswer(list) == list # <<>> /\ list[Len(list)].role = "user"

\* _get_agent: the agent of the session, created when there is none; the
\* creation may fail and leave None.
GetAgent(current, created) ==
    IF current = "agent" \/ created THEN "agent" ELSE "None"

\* One Cognito call: the API and what it came to.
CognitoCall(api, outcome) == [api |-> api, outcome |-> outcome]
NoCognitoCall == [api |-> "none", outcome |-> "none"]

SteampipeIdle ==
    /\ has_psycopg2 = FALSE
    /\ sp_pc = "off"
    /\ sp_calls = <<>>
    /\ sp_result = NoResult

\* The components outside the agent runtime are not in use.
InventoryIdle ==
    /\ resource_type = "none"
    /\ limit = 0
    /\ pages = <<>>
    /\ page_no = 1
    /\ collected = <<>>
    /\ ls_pc = "off"
    /\ ls_result = NoListing

ReadConfigIdle ==
    /\ file_path = ""
    /\ on_disk = "missing"
    /\ file_text = "json_doc"
    /\ rc_pc = "off"
    /\ rc_out = NoOutcome

ClientIdle ==
    /\ http_client = "none"
    /\ local_processes = {}
    /\ procs = <<>>
    /\ mc_pc = "off"
    /\ last_call = NoCall
    /\ ncalls = 0

IamIdle ==
    /\ iam_pc = "off"
    /\ poll_log = <<>>
    /\ sleeps = 0
    /\ report = <<>>
    /\ iam_result = NoReport

AuthIdle ==
    /\ auth_user = NoUser
    /\ auth_challenge = FALSE
    /\ auth_challenge_username = NoUser
    /\ pending_confirmation = NoUser
    /\ chat_agent = "absent"
    /\ chat_messages = NoMessages
    /\ chat_session_id = "absent"
    /\ gate = NoUser
    /\ cognito = NoCognitoCall
    /\ last_run = "off"

SideIdle ==
    /\ SteampipeIdle
    /\ InventoryIdle
    /\ ReadConfigIdle
    /\ ClientIdle
    /\ IamIdle
    /\ AuthIdle

\* The agent runtime and the gateway Lambda are not in use.
RuntimeIdle ==
    /\ mcp_config = NoConfig
    /\ pc = "off"
    /\ context = [is_none |-> TRUE, headers_none |-> TRUE, headers |-> {}]
    /\ auth_header = ""
    /\ all_tools = <<>>
    /\ stack = <<>>
    /\ idx = 1
    /\ tools = <<>>
    /\ pending = "none"
    /\ result = "none"
    /\ otel = "detached"
    /\ log = <<>>
    /\ events = <<>>
    /\ config_path = "None"
    /\ fs = [p \in Paths |-> "missing"]
    /\ load = "none"
    /\ environ = {}
    /\ env = NoMapping
    /\ resolved = [done |-> FALSE, out |-> NoMapping]
    /\ request = NoRequest
    /\ response = NoResponse
    /\ calls = <<>>
    /\ local_tools = LocalTools
    /\ inv = 1
    /\ conn_params = <<>>
    /\ env_at_load = environ
    /\ prev = NoPrev
    /\ flight = [i \in Flights |-> NoFlight]
    /\ scopes = [i \in Flights |-> <<>>]
    /\ closed = {}

\* Nothing but the steampipe query engine is in use.
IdleOutsideSteampipe ==
    /\ RuntimeIdle
    /\ InventoryIdle
    /\ ReadConfigIdle
    /\ ClientIdle
    /\ IamIdle
    /\ AuthIdle

\* Nothing but the resource inventory is in use.
IdleOutsideInventory ==
    /\ RuntimeIdle
    /\ SteampipeIdle
    /\ ReadConfigIdle
    /\ ClientIdle
    /\ IamIdle
    /\ AuthIdle

\* Nothing but read_config is in use.
IdleOutsideReadConfig ==
    /\ RuntimeIdle
    /\ SteampipeIdle
    /\ InventoryIdle
    /\ ClientIdle
    /\ IamIdle
    /\ AuthIdle

\* Nothing but the MCP tool client is in use.
IdleOutsideClient ==
    /\ RuntimeIdle
    /\ SteampipeIdle
    /\ InventoryIdle
    /\ ReadConfigIdle
    /\ IamIdle
    /\ AuthIdle

\* Nothing but the IAM credential report is in use.
IdleOutsideIam ==
    /\ RuntimeIdle
    /\ SteampipeIdle
    /\ InventoryIdle
    /\ ReadConfigIdle
    /\ ClientIdle
    /\ AuthIdle

\* Nothing but the dashboard session is in use.
IdleOutsideAuth ==
    /\ RuntimeIdle
    /\ SteampipeIdle
    /\ InventoryIdle
    /\ ReadConfigIdle
    /\ ClientIdle
    /\ IamIdle

\* ------------------------------------------------------------------ state

Init ==
    /\ mcp_config \in TypedConfigs
    /\ pc = "idle"
    /\ context = [is_none |-> TRUE, headers_none |-> TRUE, headers |-> {}]
    /\ auth_header = ""
    /\ all_tools = <<>>
    /\ stack = <<>>
    /\ idx = 1
    /\ tools = <<>>
    /\ pending = "none"
    /\ result = "none"
    /\ otel = "detached"
    /\ log = <<>>
    /\ events = <<>>
    /\ config_path = "None"
    /\ fs = [p \in Paths |-> IF p = "default" THEN "document" ELSE "missing"]
    /\ load = "returned"
    /\ environ = {}
    /\ env = NoMapping
    /\ resolved = [done |-> FALSE, out |-> NoMapping]
    /\ request = NoRequest
    /\ response = NoResponse
    /\ calls = <<>>
    /\ local_tools = LocalTools
    /\ inv = 1
    /\ conn_params = <<>>
    /\ env_at_load = environ
    /\ prev = NoPrev
    /\ flight = [i \in Flights |-> NoFlight]
    /\ scopes = [i \in Flights |-> <<>>]
    /\ closed = {}
    /\ SideIdle

\* create_app has loaded any document the loader returns without raising.
InitDoc ==
    /\ mcp_config \in LoadedDocuments
    /\ pc = "idle"
    /\ context = [is_none |-> TRUE, headers_none |-> TRUE, headers |-> {}]
    /\ auth_header = ""
    /\ all_tools = <<>>
    /\ stack = <<>>
    /\ idx = 1
    /\ tools = <<>>
    /\ pending = "none"
    /\ result = "none"
    /\ otel = "detached"
    /\ log = <<>>
    /\ events = <<>>
    /\ config_path = "None"
    /\ fs = [p \in Paths |-> IF p = "default" THEN "document" ELSE "missing"]
    /\ load = "returned"
    /\ environ = {}
    /\ env = NoMapping
    /\ resolved = [done |-> FALSE, out |-> NoMapping]
    /\ request = NoRequest
    /\ response = NoResponse
    /\ calls = <<>>
    /\ local_tools = LocalTools
    /\ inv = 1
    /\ conn_params = <<>>
    /\ env_at_load = environ
    /\ prev = NoPrev
    /\ flight = [i \in Flights |-> NoFlight]
    /\ scopes = [i \in Flights |-> <<>>]
    /\ closed = {}
    /\ SideIdle

\* invoke, up to the with statement: headers, OTEL attach, list(tools).
Invoke ==
    /\ pc = "idle"
    /\ \E ctx \in Contexts :
        /\ context' = ctx
        /\ auth_header' = AuthHeader(ctx)
    /\ otel' = AttachSessionContext(otel)
    /\ all_tools' = ListCopy(local_tools)
    /\ pc' = "gateway"
    /\ UNCHANGED <<seqvars, concvars, lambdavars, environ, envvars, loadvars, mcp_config, stack,
                   idx, tools, pending, result, log, events>>
    /\ UNCHANGED sidevars

\* Step 1 of the with block: the optional gateway connection.
GatewayStep ==
    /\ pc = "gateway"
    /\ IF GatewayLookupRaises(mcp_config)
       THEN /\ pending' = "config"
            /\ pc' = "exit"
            /\ UNCHANGED <<all_tools, stack, log, events>>
       ELSE IF ~GatewayCondition(mcp_config, auth_header)
       THEN /\ pc' = "servers"
            /\ UNCHANGED <<all_tools, stack, log, events, pending>>
       ELSE \E o \in GatewayOutcomes :
            /\ events' = events \o GatewayEvents(o)
            /\ stack' = IF Registers(o) THEN Append(stack, Gateway) ELSE stack
            /\ IF o.kind = "ok"
               THEN /\ all_tools' = Extend(all_tools, o.tools)
                    /\ log' = Append(log, Line("loaded", "Gateway", "", Len(o.tools)))
                    /\ pending' = pending
                    /\ pc' = "servers"
               ELSE IF GatewayExceptionCaught(o.kind)
               THEN /\ log' = Append(log, Line("failed", "Gateway", "", 0))
                    /\ pending' = pending
                    /\ pc' = "servers"
                    /\ UNCHANGED all_tools
               ELSE /\ pending' = "connect"
                    /\ pc' = "exit"
                    /\ UNCHANGED <<all_tools, log>>
    /\ idx' = 1
    /\ tools' = <<>>
    /\ local_tools' = ClosureTools(local_tools, all_tools')
    /\ UNCHANGED <<inv, conn_params, env_at_load, prev, concvars, lambdavars, environ, envvars,
                   loadvars, mcp_config, context, auth_header, result, otel>>
    /\ UNCHANGED sidevars

\* One iteration of create_mcp_clients' loop over config.get("mcp_servers", []).
ProcessServer ==
    /\ pc = "servers"
    /\ IF ServersIterRaises(mcp_config)
       THEN /\ pending' = "config"
            /\ pc' = "exit"
            /\ UNCHANGED <<idx, tools, stack, log, events, conn_params>>
       ELSE
         /\ idx <= Len(Servers(mcp_config))
         /\ LET server == Servers(mcp_config)[idx] IN
            IF ServerGetRaises(server)
            THEN /\ pending' = "config"
                 /\ pc' = "exit"
                 /\ UNCHANGED <<idx, tools, stack, log, events, conn_params>>
            ELSE IF ~ServerEnabled(server)
            THEN /\ idx' = idx + 1
                 /\ UNCHANGED <<pc, pending, tools, stack, log, events, conn_params>>
            ELSE IF ~Recognized(ServerTransport(server))
            THEN /\ idx' = idx + 1
                 /\ log' = Append(log, Line("unsupported", ServerName(server),
                                            ServerTransport(server), 0))
                 /\ UNCHANGED <<pc, pending, tools, stack, events, conn_params>>
            ELSE \E o \in ConnectOutcomes(ServerName(server)) :
                 /\ events' = events \o ConnectEvents(idx, o)
                 /\ conn_params' =
                      IF o.kind = "create_fail" THEN conn_params
                      ELSE Append(conn_params,
                                  [conn |-> idx,
                                   params |-> ResolveEnv(ServerEnv(server),
                                                ResolutionEnvironment(env_at_load, environ))])
                 /\ stack' = IF Registers(o) THEN Append(stack, idx) ELSE stack
                 /\ IF o.kind = "ok"
                    THEN /\ tools' = Extend(tools, o.tools)
                         /\ log' = Append(log, Line("loaded", ServerName(server), "",
                                                    Len(o.tools)))
                         /\ idx' = idx + 1
                         /\ UNCHANGED <<pc, pending>>
                    ELSE IF ServerExceptionCaught(o.kind)
                    THEN /\ log' = Append(log, Line("failed", ServerName(server), "", 0))
                         /\ idx' = idx + 1
                         /\ UNCHANGED <<pc, pending, tools>>
                    ELSE /\ pending' = "connect"
                         /\ pc' = "exit"
                         /\ UNCHANGED <<idx, tools, log>>
    /\ UNCHANGED <<local_tools, inv, env_at_load, prev, concvars, lambdavars, environ, envvars,
                   loadvars, mcp_config, context, auth_header, all_tools, result, otel>>
    /\ UNCHANGED sidevars

\* create_mcp_clients returns its tools and invoke extends all_tools with them.
CreateMcpClientsReturn ==
    /\ pc = "servers"
    /\ ~ServersIterRaises(mcp_config)
    /\ idx > Len(Servers(mcp_config))
    /\ all_tools' = Extend(all_tools, tools)
    /\ local_tools' = ClosureTools(local_tools, all_tools')
    /\ pc' = "agent"
    /\ UNCHANGED <<inv, conn_params, env_at_load, prev, concvars, lambdavars, environ, envvars,
                   loadvars, mcp_config, context, auth_header, stack, idx, tools, pending,
                   result, otel, log, events>>
    /\ UNCHANGED sidevars

\* Step 3: Agent(tools=all_tools, ...), agent(user_input) and the response text;
\* any of them may raise inside the with block.
AgentCall ==
    /\ pc = "agent"
    /\ \E ok \in BOOLEAN :
        /\ events' = Append(events, Ev("agent", -1, ok, all_tools))
        /\ pending' = IF ok THEN "none" ELSE "agent"
    /\ pc' = "exit"
    /\ UNCHANGED <<seqvars, concvars, lambdavars, environ, envvars, loadvars, mcp_config, context, auth_header, all_tools, stack, idx, tools,
                   result, otel, log>>
    /\ UNCHANGED sidevars

\* ExitStack.__exit__: one registered client's __exit__ is called.
ExitCallback ==
    /\ pc = "exit"
    /\ stack # <<>>
    /\ LET top == PopCallback(stack) IN
       \E raised \in BOOLEAN :
         /\ events' = Append(events, Ev("exit", top.conn, ~raised, <<>>))
         /\ stack' = AfterCallback(top.rest, raised)
         /\ pending' = PendingAfterCallback(pending, raised)
    /\ UNCHANGED <<seqvars, concvars, lambdavars, environ, envvars, loadvars, mcp_config, pc, context, auth_header, all_tools, idx, tools,
                   result, otel, log>>
    /\ UNCHANGED sidevars

\* The with block is left and the finally clause detaches the session context;
\* the invocation returns the response text or raises the exception in flight.
InvokeEnd ==
    /\ pc = "exit"
    /\ stack = <<>>
    /\ result' = IF pending = "none" THEN "returned" ELSE "raised"
    /\ otel' = Finally(otel, pending)
    /\ pc' = "done"
    /\ UNCHANGED <<seqvars, concvars, lambdavars, environ, envvars, loadvars, mcp_config, context, auth_header, all_tools, stack, idx, tools,
                   pending, log, events>>
    /\ UNCHANGED sidevars

Next ==
    \/ Invoke
    \/ GatewayStep
    \/ ProcessServer
    \/ CreateMcpClientsReturn
    \/ AgentCall
    \/ ExitCallback
    \/ InvokeEnd

Spec == Init /\ [][Next]_vars

SpecDoc == InitDoc /\ [][Next]_vars

\* ------------------------------------------------ construction of the app

\* Before create_app: any path argument over any disk state.
InitLoad ==
    /\ mcp_config = NoConfig
    /\ pc = "create_app"
    /\ context = [is_none |-> TRUE, headers_none |-> TRUE, headers |-> {}]
    /\ auth_header = ""
    /\ all_tools = <<>>
    /\ stack = <<>>
    /\ idx = 1
    /\ tools = <<>>
    /\ pending = "none"
    /\ result = "none"
    /\ otel \in {"detached", "unavailable"}
    /\ log = <<>>
    /\ events = <<>>
    /\ config_path \in ConfigPathArgs
    /\ fs \in [Paths -> FileStates]
    /\ load = "none"
    /\ environ = {}
    /\ env = NoMapping
    /\ resolved = [done |-> FALSE, out |-> NoMapping]
    /\ request = NoRequest
    /\ response = NoResponse
    /\ calls = <<>>
    /\ local_tools = LocalTools
    /\ inv = 1
    /\ conn_params = <<>>
    /\ env_at_load = environ
    /\ prev = NoPrev
    /\ flight = [i \in Flights |-> NoFlight]
    /\ scopes = [i \in Flights |-> <<>>]
    /\ closed = {}
    /\ SideIdle

\* create_app: mcp_config = load_mcp_config(mcp_config_path), once. When the
\* load raises, create_app raises and the entrypoint is never registered.
CreateApp ==
    /\ pc = "create_app"
    /\ env_at_load' = environ
    /\ \E content \in DiskDocuments :
         LET r == LoadMcpConfig(config_path, fs, content) IN
         IF r.raised
         THEN /\ load' = "raised"
              /\ pc' = "load_failed"
              /\ UNCHANGED mcp_config
         ELSE /\ load' = "returned"
              /\ pc' = "idle"
              /\ mcp_config' = r.value
    /\ UNCHANGED <<context, auth_header, all_tools, stack, idx, tools, pending,
                   result, otel, log, events, config_path, fs, environ, envvars,
                   concvars, lambdavars, local_tools, inv, conn_params, prev>>
    /\ UNCHANGED sidevars

NextLoad == CreateApp \/ Next

SpecLoad == InitLoad /\ [][NextLoad]_vars

\* ------------------------------------------------- observations on a state

\* Positions of the calls op made on connection c.
Calls(op, c) == { k \in DOMAIN events : events[k].op = op /\ events[k].conn = c }

\* Positions of all calls that concern connection c.
CallsOn(c) == { k \in DOMAIN events : events[k].conn = c }

\* Connection c was registered in the scope: its __enter__ returned.
Entered(c) == \E k \in Calls("enter", c) : events[k].ok

\* Position of the call that registered connection c.
EnterPos(c) == CHOOSE k \in Calls("enter", c) : events[k].ok

\* The tools connection c contributed: those its list_tools_sync returned.
ToolsFrom(c) ==
    IF \E k \in Calls("list", c) : events[k].ok
    THEN events[CHOOSE k \in Calls("list", c) : events[k].ok].tools
    ELSE <<>>

\* Tools of the sources i..n in descriptor order.
RECURSIVE ConcatSources(_, _)
ConcatSources(i, n) ==
    IF i > n THEN <<>> ELSE ToolsFrom(i) \o ConcatSources(i + 1, n)

NumServers == Len(Servers(mcp_config))

\* Connections an invocation can open.
Conns == 0..NumServers

\* create_mcp_clients has returned to invoke.
CreateReturned == \E k \in DOMAIN events : events[k].op = "agent"

\* An exception left the tool assembly (gateway step or create_mcp_clients).
AssemblyRaised == pending \in {"config", "connect"}

\* The agent call returned a response.
AgentReturned == \E k \in DOMAIN events : events[k].op = "agent" /\ events[k].ok

\* Some registered client's __exit__ raised.
SomeCloseRaised == \E k \in DOMAIN events : events[k].op = "exit" /\ ~events[k].ok

\* The request carries a non-empty Authorization header.
HasAuthorization(ctx) ==
    /\ ~ctx.is_none
    /\ ~ctx.headers_none
    /\ \E h \in ctx.headers : h[1] = "Authorization" /\ h[2] # ""

\* The gateway step was attempted: its first call is the gateway id lookup.
GatewayAttempted == Calls("get_ssm_parameter", Gateway) # {}

\* ------------------------------------------------------------------ claims

C2_AllClosedAtEnd ==
    pc = "done" =>
        /\ stack = <<>>
        /\ \A c \in Conns : Entered(c) => Calls("exit", c) # {}

\* C2 witness: a later descriptor raised out of create_mcp_clients after an
\* earlier source had been connected, and that connection was released.
C2_Witness ==
    /\ pc = "done"
    /\ result = "raised"
    /\ pending = "config"
    /\ Entered(1)
    /\ Calls("exit", 1) # {}

\* C3: an exception raised while releasing a connection is suppressed: when
\* the agent returned a response and a release then raised, the invocation
\* still returns the response text.
C3_ReleaseErrorSuppressed ==
    (pc = "done" /\ AgentReturned /\ SomeCloseRaised) => result = "returned"

\* C4: scope release is total: each registered connection's __exit__ is
\* called exactly once by the end of the invocation, never more than once
\* before, and only for connections that were registered, also when the
\* release of some of them raises.
C4_ReleaseTotal ==
    /\ \A c \in Conns :
         /\ Cardinality(Calls("exit", c)) <= 1
         /\ Calls("exit", c) # {} => Entered(c)
    /\ pc = "done" =>
         \A c \in Conns : Entered(c) => Cardinality(Calls("exit", c)) = 1

\* C4 witness: three connections were registered, the release of the one
\* released first raised, and all three were released.
C4_Witness ==
    /\ pc = "done"
    /\ \A c \in 0..2 : Entered(c) /\ Calls("exit", c) # {}
    /\ \E k \in Calls("exit", 2) : ~events[k].ok

\* C5: the list handed to the agent is the local tools, then the gateway's
\* tools, then each connected source's tools in descriptor order, each list in
\* the order the source returned it, with nothing dropped or deduplicated.
C5_ToolListOrder ==
    \A k \in DOMAIN events :
        events[k].op = "agent" =>
            events[k].tools =
                LocalTools \o ToolsFrom(Gateway) \o ConcatSources(1, NumServers)

\* C5 witness: the gateway and two sources all returned tools, with names
\* that collide with a local tool and with each other.
C5_Witness ==
    /\ CreateReturned
    /\ ToolsFrom(Gateway) = <<"t1", "g1">>
    /\ ToolsFrom(1) = <<"t2", "L1">>
    /\ ToolsFrom(2) = <<"t1">>

\* C6: for every document the loader returned, building the tool list (gateway
\* step and create_mcp_clients) never raises.
C6_AssemblyNeverRaises == ~AssemblyRaised

C8_DisabledUntouched ==
    \A i \in 1..NumServers :
        Servers(mcp_config)[i].enabled # "true" => CallsOn(i) = {}

\* C8 witness: a disabled stdio descriptor was passed over and the enabled
\* descriptor after it was connected.
C8_Witness ==
    /\ pc = "done"
    /\ NumServers = 2
    /\ Servers(mcp_config)[1].enabled = "false"
    /\ Servers(mcp_config)[1].transport = "stdio"
    /\ Entered(2)

\* Processed descriptors that are enabled with an unrecognized transport.
UnsupportedProcessed ==
    { i \in 1..(idx - 1) :
        /\ Servers(mcp_config)[i].enabled = "true"
        /\ Servers(mcp_config)[i].transport \notin {"stdio", "streamable_http"} }

C10_ReverseRelease ==
    \A p, q \in DOMAIN events :
        (p < q /\ events[p].op = "exit" /\ events[q].op = "exit") =>
            /\ Entered(events[p].conn) /\ Entered(events[q].conn)
            /\ EnterPos(events[p].conn) > EnterPos(events[q].conn)
            /\ events[p].conn > events[q].conn

\* C10 witness: gateway and two sources were registered; source 2 was released
\* first and its release raised, then source 1, then the gateway.
C10_Witness ==
    /\ pc = "done"
    /\ \E p, q, r \in DOMAIN events :
         /\ p < q /\ q < r
         /\ events[p] = Ev("exit", 2, FALSE, <<>>)
         /\ events[q].op = "exit" /\ events[q].conn = 1
         /\ events[r].op = "exit" /\ events[r].conn = Gateway


\* Positions of the release calls.
ExitPositions == { k \in DOMAIN events : events[k].op = "exit" }

\* C11: only the scope closes connections. For every loaded document: up to
\* and including the agent call no client's __exit__ has been called, a
\* release follows the agent call whenever the agent was called, and when the
\* agent is called every connection that was registered (also one registered
\* before a later source failed) is still held open by the scope.
C11_OpenDuringAgentCall ==
    /\ pc \in {"idle", "gateway", "servers", "agent"} => ExitPositions = {}
    /\ \A p \in ExitPositions, a \in DOMAIN events :
         events[a].op = "agent" => a < p
    /\ pc = "agent" =>
         \A c \in Conns :
            Entered(c) => \E k \in DOMAIN stack : stack[k] = c

\* C11 witness: source 1 was connected and listed, source 2 failed to
\* connect, the agent ran with source 1's tools, and source 1 was released
\* only afterwards.
C11_Witness ==
    /\ pc = "done"
    /\ ToolsFrom(1) = <<"t2", "L1">>
    /\ \E k \in Calls("enter", 2) : ~events[k].ok
    /\ \E a \in DOMAIN events, p \in Calls("exit", 1) :
         events[a].op = "agent" /\ a < p

\* The call at position k belongs to the connection attempt of a source.
IsAttempt(k) ==
    events[k].op \in {"create", "enter", "list"} /\ events[k].conn >= 1

\* C14: connection attempts are sequential and in declaration order. Every
\* call of an attempt is preceded only by calls of the gateway step, of
\* earlier descriptors' attempts or of the same attempt, so the attempts
\* appear grouped by descriptor in the order of the configured list; each
\* attempt has ended (its last call raised or was the listing) before
\* anything else is called, and while the loop is at descriptor idx every
\* attempt made belongs to an earlier descriptor; the attempt numbered i is
\* the one of the i-th configured descriptor, which is enabled with a
\* recognized transport.
C14_SequentialAttempts ==
    \A p \in DOMAIN events :
        IsAttempt(p) =>
            LET c == events[p].conn IN
            /\ c < idx
            /\ c <= Len(mcp_config.mcp_servers)
            /\ mcp_config.mcp_servers[c].enabled = "true"
            /\ mcp_config.mcp_servers[c].transport \in {"stdio", "streamable_http"}
            /\ (events[p].op = "list" /\ events[p].ok) =>
                  events[p].tools = RemoteTools(mcp_config.mcp_servers[c].name)
            /\ p > 1 =>
                  /\ events[p - 1].conn \in Gateway..c
                  /\ events[p - 1].op \notin {"agent", "exit"}
                  /\ events[p - 1].conn < c =>
                        (IsAttempt(p - 1) =>
                            (~events[p - 1].ok \/ events[p - 1].op = "list"))
            /\ (p = Len(events) \/ events[p + 1].conn # c) =>
                  (~events[p].ok \/ events[p].op = "list")

\* C14 witness: the attempt of the first descriptor ended with a failed
\* listing before the attempt of the second one began and succeeded.
C14_Witness ==
    /\ pc = "agent"
    /\ \E p \in Calls("list", 1), q \in Calls("create", 2) :
         ~events[p].ok /\ p < q
    /\ ToolsFrom(2) = <<"t1">>


\* C15: a configuration path that does not exist (the given path, or
\* CONFIG_PATH when none is given) makes load_mcp_config return the default
\* configuration, gateway.enabled false and no sources, and never raise,
\* whatever is at the other path.
C15_MissingFileDefault ==
    (load # "none" /\ fs[EffectivePath(config_path)] = "missing") =>
        /\ load = "returned"
        /\ mcp_config.top = "dict"
        /\ mcp_config.gateway = "enabled_false"
        /\ mcp_config.servers_key = "list"
        /\ mcp_config.mcp_servers = <<>>

\* C15 witness: no path was given, CONFIG_PATH does not exist although a
\* document sits at the other path, and an invocation has then run to its
\* end with the local tools only.
C15_Witness ==
    /\ config_path = "None"
    /\ fs["default"] = "missing"
    /\ fs["custom"] = "document"
    /\ load = "returned"
    /\ pc = "done"
    /\ \E k \in DOMAIN events :
         events[k].op = "agent" /\ events[k].tools = LocalTools

\* C16: a path that exists but is a directory or malformed YAML makes
\* load_mcp_config raise; the default configuration is not substituted, the
\* invocation function never comes to exist, so no invocation starts, calls
\* the agent or returns a response.
C16_UnreadableFileFatal ==
    (load # "none" /\ fs[EffectivePath(config_path)] \in {"directory", "malformed"}) =>
        /\ load = "raised"
        /\ pc = "load_failed"
        /\ mcp_config = NoConfig
        /\ result = "none"
        /\ events = <<>>

\* C16 witness: the given path is a directory and create_app has raised.
C16_Witness ==
    /\ config_path = "custom"
    /\ fs["custom"] = "directory"
    /\ load = "raised"
    /\ pc = "load_failed"


\* ------------------------------------------------- environment resolution

\* Before one call of _resolve_env: any mapping over any environment.
InitEnv ==
    /\ mcp_config = NoConfig
    /\ pc = "resolve_env"
    /\ context = [is_none |-> TRUE, headers_none |-> TRUE, headers |-> {}]
    /\ auth_header = ""
    /\ all_tools = <<>>
    /\ stack = <<>>
    /\ idx = 1
    /\ tools = <<>>
    /\ pending = "none"
    /\ result = "none"
    /\ otel = "detached"
    /\ log = <<>>
    /\ events = <<>>
    /\ config_path = "None"
    /\ fs = [p \in Paths |-> "missing"]
    /\ load = "none"
    /\ environ \in SUBSET EnvNames
    /\ env \in Mappings
    /\ resolved = [done |-> FALSE, out |-> NoMapping]
    /\ request = NoRequest
    /\ response = NoResponse
    /\ calls = <<>>
    /\ local_tools = LocalTools
    /\ inv = 1
    /\ conn_params = <<>>
    /\ env_at_load = environ
    /\ prev = NoPrev
    /\ flight = [i \in Flights |-> NoFlight]
    /\ scopes = [i \in Flights |-> <<>>]
    /\ closed = {}
    /\ SideIdle

\* One call of _resolve_env.
ResolveEnvCall ==
    /\ pc = "resolve_env"
    /\ ~resolved.done
    /\ resolved' = [done |-> TRUE, out |-> ResolveEnv(env, environ)]
    /\ UNCHANGED <<mcp_config, pc, context, auth_header, all_tools, stack, idx,
                   tools, pending, result, otel, log, events, loadvars, environ, env,
                   concvars, lambdavars, seqvars>>
    /\ UNCHANGED sidevars

NextEnv == ResolveEnvCall

SpecEnv == InitEnv /\ [][NextEnv]_vars


\* Characters a NAME is written with.
NameChars == {"A", "x"}

\* Where the token ${NAME} that starts at position i of s ends, 0 when no
\* token starts there.
TokenEnd(s, i) ==
    IF /\ i + 3 <= Len(s)
       /\ s[i] = "$"
       /\ s[i + 1] = "{"
       /\ \E j \in (i + 3)..Len(s) :
            s[j] = "}" /\ \A k \in (i + 2)..(j - 1) : s[k] \in NameChars
    THEN CHOOSE j \in (i + 3)..Len(s) :
            s[j] = "}" /\ \A k \in (i + 2)..(j - 1) : s[k] \in NameChars
    ELSE 0

\* s from position i on, with every token ${NAME} replaced by the value of
\* NAME when NAME is set, and all other text kept.
RECURSIVE EachTokenReplaced(_, _, _)
EachTokenReplaced(s, i, environment) ==
    IF i > Len(s) THEN <<>>
    ELSE LET j == TokenEnd(s, i) IN
         IF j = 0 THEN <<s[i]>> \o EachTokenReplaced(s, i + 1, environment)
         ELSE (IF SubSeq(s, i + 2, j - 1) \in environment
               THEN EnvValue(SubSeq(s, i + 2, j - 1))
               ELSE SubSeq(s, i, j))
              \o EachTokenReplaced(s, j + 1, environment)

\* C17: environment resolution. The resolved mapping has the keys of the
\* input, and every string value is the input value with each ${NAME} token
\* replaced by the environment value of NAME when NAME is set, left as the
\* literal ${NAME} when it is not, and the text outside tokens unchanged.
C17_EachTokenResolved ==
    resolved.done =>
        /\ DOMAIN resolved.out = DOMAIN env
        /\ \A k \in DOMAIN env :
             env[k].type = "str" =>
                resolved.out[k].text = EachTokenReplaced(env[k].text, 1, environ)


\* ------------------------------------------------ gateway Lambda dispatcher

\* Before one call of lambda_handler: any request.
InitLambda ==
    /\ mcp_config = NoConfig
    /\ pc = "lambda"
    /\ context = [is_none |-> TRUE, headers_none |-> TRUE, headers |-> {}]
    /\ auth_header = ""
    /\ all_tools = <<>>
    /\ stack = <<>>
    /\ idx = 1
    /\ tools = <<>>
    /\ pending = "none"
    /\ result = "none"
    /\ otel = "detached"
    /\ log = <<>>
    /\ events = <<>>
    /\ config_path = "None"
    /\ fs = [p \in Paths |-> "missing"]
    /\ load = "none"
    /\ environ = {}
    /\ env = NoMapping
    /\ resolved = [done |-> FALSE, out |-> NoMapping]
    /\ request \in Requests
    /\ response = NoResponse
    /\ calls = <<>>
    /\ local_tools = LocalTools
    /\ inv = 1
    /\ conn_params = <<>>
    /\ env_at_load = environ
    /\ prev = NoPrev
    /\ flight = [i \in Flights |-> NoFlight]
    /\ scopes = [i \in Flights |-> <<>>]
    /\ closed = {}
    /\ SideIdle

\* lambda_handler(event, context): the registry function either returns or
\* raises an Exception.
LambdaHandler ==
    /\ pc = "lambda"
    /\ ~response.done
    /\ IF request.ctx # "named"
       THEN /\ response' = [done |-> TRUE, statusCode |-> 400,
                            body |-> JsonDumps([error |-> "Missing bedrockAgentCoreToolName"])]
            /\ UNCHANGED calls
       ELSE LET tool_name == ExtractToolName(request.raw_name)
                handler == RegistryGet(tool_name)
                params == Params(request.event)
            IN IF handler = <<"None">>
               THEN /\ response' = [done |-> TRUE, statusCode |-> 404,
                                    body |-> JsonDumps([error |-> <<"Unknown tool", tool_name>>])]
                    /\ UNCHANGED calls
               ELSE \E returns \in BOOLEAN :
                    /\ calls' = Append(calls, [handler |-> handler, params |-> params,
                                               ok |-> returns])
                    /\ response' =
                         IF returns
                         THEN [done |-> TRUE, statusCode |-> 200,
                               body |-> JsonDumps(ToolResult(handler, params))]
                         ELSE [done |-> TRUE, statusCode |-> 500,
                               body |-> JsonDumps([error |-> <<"Tool execution failed", tool_name>>])]
    /\ UNCHANGED <<mcp_config, pc, context, auth_header, all_tools, stack, idx,
                   tools, pending, result, otel, log, events, loadvars, environ,
                   envvars, request, seqvars, concvars>>
    /\ UNCHANGED sidevars

NextLambda == LambdaHandler

SpecLambda == InitLambda /\ [][NextLambda]_vars


\* The request carries a name whose extracted tool name is registered.
Dispatched ==
    request.ctx = "named" /\ ExtractToolName(request.raw_name) \in ToolRegistry

DispatchedName ==
    IF calls # <<>> THEN calls[1].handler ELSE response.body.json.error[2]

\* C20: tool-name extraction. For a raw name that contains the separator
\* the dispatched name is the part of the raw name that follows a target
\* prefix and its separator (raw = target ___ tool_name, dispatched =
\* tool_name); a raw name without the separator is dispatched unchanged.
C20_ToolNameAfterPrefix ==
    (response.done /\ request.ctx = "named") =>
        LET raw == request.raw_name IN
        IF FindSeparator(raw, 1) = 0 THEN DispatchedName = raw
        ELSE \E i \in 1..(Len(raw) - 2) :
                /\ FindSeparator(raw, i) = i
                /\ DispatchedName = SubSeq(raw, i + 3, Len(raw))


\* ------------------------------------------- several invocations of one app

\* Configurations the sequences of invocations are run on.
SeqConfigs ==
    { [top |-> "dict", gateway |-> "enabled_true", servers_key |-> "list",
       mcp_servers |->
         << [shape |-> "dict", name |-> "A", enabled |-> "true", transport |-> "stdio"],
            [shape |-> "dict", name |-> "B", enabled |-> "true",
             transport |-> "streamable_http"] >>],
      [top |-> "dict", gateway |-> Absent, servers_key |-> "list",
       mcp_servers |->
         << [shape |-> "dict", name |-> "A", enabled |-> "false", transport |-> "stdio"],
            [shape |-> "dict", name |-> "A", enabled |-> "true", transport |-> "stdio"] >>] }

\* An app whose configuration is loaded, under any environment.
InitSeq ==
    /\ mcp_config \in SeqConfigs
    /\ pc = "idle"
    /\ context = [is_none |-> TRUE, headers_none |-> TRUE, headers |-> {}]
    /\ auth_header = ""
    /\ all_tools = <<>>
    /\ stack = <<>>
    /\ idx = 1
    /\ tools = <<>>
    /\ pending = "none"
    /\ result = "none"
    /\ otel = "detached"
    /\ log = <<>>
    /\ events = <<>>
    /\ config_path = "None"
    /\ fs = [p \in Paths |-> IF p = "default" THEN "document" ELSE "missing"]
    /\ load = "returned"
    /\ environ \in SUBSET TemplateNames
    /\ env = NoMapping
    /\ resolved = [done |-> FALSE, out |-> NoMapping]
    /\ request = NoRequest
    /\ response = NoResponse
    /\ calls = <<>>
    /\ local_tools = LocalTools
    /\ inv = 1
    /\ conn_params = <<>>
    /\ env_at_load = environ
    /\ prev = NoPrev
    /\ flight = [i \in Flights |-> NoFlight]
    /\ scopes = [i \in Flights |-> <<>>]
    /\ closed = {}
    /\ SideIdle

\* The tool list the agent of the invocation that has ended was given.
AgentTools ==
    IF \E k \in DOMAIN events : events[k].op = "agent"
    THEN events[CHOOSE k \in DOMAIN events : events[k].op = "agent"].tools
    ELSE <<>>

\* The next invocation arrives once the last one has ended: invoke's locals
\* are gone, its calls and printed lines belong to the past.
Reinvoke ==
    /\ pc = "done"
    /\ inv < MaxInvocations
    /\ inv' = inv + 1
    /\ prev' = [tools |-> AgentTools, params |-> conn_params]
    /\ pc' = "idle"
    /\ context' = [is_none |-> TRUE, headers_none |-> TRUE, headers |-> {}]
    /\ auth_header' = ""
    /\ all_tools' = <<>>
    /\ idx' = 1
    /\ tools' = <<>>
    /\ pending' = "none"
    /\ result' = "none"
    /\ log' = <<>>
    /\ events' = <<>>
    /\ conn_params' = <<>>
    /\ UNCHANGED <<mcp_config, stack, otel, loadvars, environ, envvars, concvars, lambdavars,
                   local_tools, env_at_load>>
    /\ UNCHANGED sidevars

\* Between two invocations the process environment changes: a name is set or
\* unset.
EnvChange ==
    /\ pc = "idle"
    /\ \E name \in TemplateNames :
         environ' = IF name \in environ THEN environ \ {name} ELSE environ \cup {name}
    /\ UNCHANGED <<mcp_config, pc, context, auth_header, all_tools, stack, idx,
                   tools, pending, result, otel, log, events, loadvars, envvars,
                   concvars, lambdavars, seqvars>>
    /\ UNCHANGED sidevars

NextSeq == Next \/ Reinvoke \/ EnvChange

SpecSeq == InitSeq /\ [][NextSeq]_vars


\* Descriptor i is one create_mcp_clients tries to connect to.
Attempted(i) ==
    /\ ServerEnabled(Servers(mcp_config)[i])
    /\ Recognized(ServerTransport(Servers(mcp_config)[i]))

\* C12: across a sequence of invocations on one app the tool list is rebuilt
\* from scratch. The list supplied at construction is never modified; when
\* an invocation reaches the agent call it has itself made a connection
\* attempt for every enabled source and a list-tools call on every source it
\* connected; the list the agent gets is the local tools followed by exactly
\* the lists fetched in this invocation, whatever an earlier invocation
\* fetched; and between invocations no connection is left in a scope.
C12_RebuiltEachInvocation ==
    /\ local_tools = LocalTools
    /\ pc = "idle" => (stack = <<>> /\ conn_params = <<>> /\ events = <<>>)
    /\ \A k \in DOMAIN stack : Entered(stack[k])
    /\ \A k \in DOMAIN events :
         events[k].op = "agent" =>
            /\ events[k].tools =
                  LocalTools \o ToolsFrom(Gateway) \o ConcatSources(1, NumServers)
            /\ \A i \in 1..NumServers :
                  Attempted(i) =>
                     /\ \E p \in Calls("create", i) : p < k
                     /\ Entered(i) => \E p \in Calls("list", i) : p < k

\* C12 witness: the first invocation gave its agent remote tools of the
\* gateway and both sources; in the second invocation every connection
\* failed and the agent was given the local tools alone.
C12_Witness ==
    /\ inv = 2
    /\ prev.tools = LocalTools \o <<"t1", "g1">> \o <<"t2", "L1">> \o <<"t1">>
    /\ GatewayAttempted
    /\ \A i \in 1..NumServers : Calls("create", i) # {}
    /\ \E k \in DOMAIN events :
         events[k].op = "agent" /\ events[k].tools = LocalTools

\* C18: placeholders are resolved when a source is activated. The env /
\* headers every client of the current invocation was built with are the
\* descriptor's mapping resolved against the process environment as it is
\* during this invocation, whatever it was when the configuration was
\* loaded or during an earlier invocation.
C18_ResolvedAtActivation ==
    \A k \in DOMAIN conn_params :
        conn_params[k].params =
            ResolveEnv(ServerEnv(Servers(mcp_config)[conn_params[k].conn]), environ)

\* C18 witness: A was unset during the first invocation, whose client of
\* source 1 got the literal placeholder; A was then set, and the client of
\* source 1 in the second invocation got its value.
C18_Witness ==
    /\ inv = 2
    /\ <<"A">> \in environ
    /\ <<"A">> \notin env_at_load
    /\ \E p \in DOMAIN prev.params :
         /\ prev.params[p].conn = 1
         /\ prev.params[p].params["TOKEN"].text = <<"$", "{", "A", "}">>
    /\ \E k \in DOMAIN conn_params :
         /\ conn_params[k].conn = 1
         /\ conn_params[k].params["TOKEN"].text = <<"v">>


\* ------------------------------------------------- concurrent invocations

\* Configurations the concurrent invocations are run on: those of the
\* sequences, and every source's connection attempts end as in ConnectOutcomes.
InitConc ==
    /\ mcp_config \in SeqConfigs
    /\ pc = "concurrent"
    /\ context = [is_none |-> TRUE, headers_none |-> TRUE, headers |-> {}]
    /\ auth_header = ""
    /\ all_tools = <<>>
    /\ stack = <<>>
    /\ idx = 1
    /\ tools = <<>>
    /\ pending = "none"
    /\ result = "none"
    /\ otel = "detached"
    /\ log = <<>>
    /\ events = <<>>
    /\ config_path = "None"
    /\ fs = [p \in Paths |-> IF p = "default" THEN "document" ELSE "missing"]
    /\ load = "returned"
    /\ environ = {}
    /\ env = NoMapping
    /\ resolved = [done |-> FALSE, out |-> NoMapping]
    /\ request = NoRequest
    /\ response = NoResponse
    /\ calls = <<>>
    /\ local_tools = LocalTools
    /\ inv = 1
    /\ conn_params = <<>>
    /\ env_at_load = environ
    /\ prev = NoPrev
    /\ flight = [i \in Flights |-> NoFlight]
    /\ scopes = [i \in Flights |-> <<>>]
    /\ closed = {}
    /\ SideIdle

\* What the concurrent invocations leave alone.
ConcFrame ==
    UNCHANGED <<mcp_config, pc, context, auth_header, all_tools, stack, idx, tools,
                pending, result, otel, log, events, loadvars, environ, envvars,
                lambdavars, seqvars, sidevars>>

\* Invocation i enters invoke up to the with statement.
FlightInvoke(i) ==
    /\ pc = "concurrent"
    /\ flight[i].pc = "idle"
    /\ \E ctx \in Contexts :
         flight' = [flight EXCEPT ![i] =
                      [pc |-> "gateway", idx |-> 1, auth_header |-> AuthHeader(ctx)]]
    /\ UNCHANGED <<scopes, closed>>
    /\ ConcFrame

\* Invocation i: the gateway step, registering the client in i's ExitStack.
FlightGatewayStep(i) ==
    /\ pc = "concurrent"
    /\ flight[i].pc = "gateway"
    /\ flight' = [flight EXCEPT ![i].pc = "servers"]
    /\ IF ~GatewayCondition(mcp_config, flight[i].auth_header)
       THEN UNCHANGED scopes
       ELSE \E o \in GatewayOutcomes :
            scopes' = IF Registers(o)
                      THEN [scopes EXCEPT ![ScopeOf(i)] = Append(@, <<i, Gateway>>)]
                      ELSE scopes
    /\ UNCHANGED closed
    /\ ConcFrame

\* Invocation i: one iteration of create_mcp_clients' loop.
FlightProcessServer(i) ==
    /\ pc = "concurrent"
    /\ flight[i].pc = "servers"
    /\ flight[i].idx <= Len(Servers(mcp_config))
    /\ flight' = [flight EXCEPT ![i].idx = @ + 1]
    /\ LET server == Servers(mcp_config)[flight[i].idx] IN
       IF ~ServerEnabled(server) \/ ~Recognized(ServerTransport(server))
       THEN UNCHANGED scopes
       ELSE \E o \in ConnectOutcomes(ServerName(server)) :
            scopes' = IF Registers(o)
                      THEN [scopes EXCEPT ![ScopeOf(i)] = Append(@, <<i, flight[i].idx>>)]
                      ELSE scopes
    /\ UNCHANGED closed
    /\ ConcFrame

\* Invocation i: create_mcp_clients returns and the agent is called; then
\* the with block is left.
FlightAgentCall(i) ==
    /\ pc = "concurrent"
    /\ flight[i].pc = "servers"
    /\ flight[i].idx > Len(Servers(mcp_config))
    /\ flight' = [flight EXCEPT ![i].pc = "exit"]
    /\ UNCHANGED <<scopes, closed>>
    /\ ConcFrame

\* Invocation i: its ExitStack's __exit__ pops and calls one callback, or
\* finds none left and invoke ends.
FlightExitCallback(i) ==
    /\ pc = "concurrent"
    /\ flight[i].pc = "exit"
    /\ IF scopes[ScopeOf(i)] = <<>>
       THEN /\ flight' = [flight EXCEPT ![i].pc = "done"]
            /\ UNCHANGED <<scopes, closed>>
       ELSE LET top == PopCallback(scopes[ScopeOf(i)]) IN
            \E raised \in BOOLEAN :
               /\ scopes' = [scopes EXCEPT ![ScopeOf(i)] = AfterCallback(top.rest, raised)]
               /\ closed' = closed \cup {[handle |-> top.conn, by |-> i]}
               /\ UNCHANGED flight
    /\ ConcFrame

NextConc ==
    \E i \in Flights :
        \/ FlightInvoke(i)
        \/ FlightGatewayStep(i)
        \/ FlightProcessServer(i)
        \/ FlightAgentCall(i)
        \/ FlightExitCallback(i)

SpecConc == InitConc /\ [][NextConc]_vars


\* C13: each invocation has its own scope. With several invocations in
\* flight, a connection is released only by the scope exit of the invocation
\* that registered it; a scope holds only connections of its own
\* invocation, each registered connection is held by exactly one scope, and
\* an invocation that has not entered or has left its with block holds
\* nothing.
C13_OwnScope ==
    /\ \A r \in closed : r.handle[1] = r.by
    /\ \A i \in Flights :
         /\ \A k \in DOMAIN scopes[i] : scopes[i][k][1] = i
         /\ \A k, m \in DOMAIN scopes[i] : scopes[i][k] = scopes[i][m] => k = m
         /\ flight[i].pc \in {"idle", "gateway", "done"} => scopes[i] = <<>>

\* C13 witness: A has released its connection to source 2 by its own scope
\* exit and ended, while B, still inside its with block, holds its own
\* connections to the gateway and source 2.
C13_Witness ==
    /\ flight["A"].pc = "done"
    /\ [handle |-> <<"A", 2>>, by |-> "A"] \in closed
    /\ flight["B"].pc = "servers"
    /\ scopes["B"] = << <<"B", Gateway>>, <<"B", 2>> >>


\* Some call of the gateway step (gateway id lookup, gateway URL lookup,
\* connection, list tools) raised.
GatewayFailed ==
    \E k \in CallsOn(Gateway) : events[k].op # "exit" /\ ~events[k].ok

\* C24: gateway failure is isolated. When the gateway step was attempted and
\* one of its calls raised, the exception is caught (it is not in flight), the
\* gateway contributes zero tools, every configured descriptor is processed
\* afterwards and the agent is invoked.
C24_GatewayFailureIsolated ==
    (GatewayAttempted /\ GatewayFailed) =>
        /\ pending # "connect"
        /\ ToolsFrom(Gateway) = <<>>
        /\ pc \in {"agent", "exit", "done"} =>
             /\ idx = NumServers + 1
             /\ ~ServersIterRaises(mcp_config)
        /\ pc \in {"exit", "done"} => CreateReturned


\* The list_tools_sync call on connection c raised.
ListFailed(c) == \E k \in Calls("list", c) : ~events[k].ok

\* Number of times connection c is registered in the scope.
Registered(c) == Cardinality({ k \in DOMAIN stack : stack[k] = c })

\* C25: a connection that was entered into the scope and whose list-tools call
\* then raised contributes zero tools (the collected list is what the sources
\* before it contributed), stays registered and unreleased until the scope
\* exits, and is released exactly once by the scope: at every moment it is
\* either registered once and not released, or released once and no longer
\* registered, and it has been released when the invocation has ended.
C25_ListFailedStaysRegistered ==
    \A c \in Conns :
        ListFailed(c) =>
            /\ Entered(c)
            /\ (c = Gateway /\ pc = "servers") => all_tools = local_tools
            /\ (c >= 1 /\ pc = "servers" /\ idx = c + 1) =>
                   tools = ConcatSources(1, c - 1)
            /\ pc \in {"servers", "agent"} =>
                   Registered(c) = 1 /\ Calls("exit", c) = {}
            /\ Registered(c) + Cardinality(Calls("exit", c)) = 1
            /\ pc = "done" => Cardinality(Calls("exit", c)) = 1

\* C25 witness: source 1 was connected, its listing raised, source 2 was
\* connected and listed, and at the end both had been released once, source 2
\* before source 1.
C25_Witness ==
    /\ pc = "done"
    /\ ListFailed(1)
    /\ ToolsFrom(2) # <<>>
    /\ \E p \in Calls("exit", 2), q \in Calls("exit", 1) : p < q
    /\ Cardinality(Calls("exit", 1)) = 1


\* The invocation is between the attach call and the finally clause.
InInvocation == pc \in {"gateway", "servers", "agent", "exit"}

\* C26: the observability session context is balanced. In an invocation made
\* through create_app in which the context was attached it stays attached
\* while the invocation runs and while the scope releases its connections, it
\* is detached when the invocation has ended, whether it returned or raised,
\* and the only step that detaches it is the one that leaves the with block
\* with the scope empty, which happens once per invocation; the only step
\* that attaches it is the start of the invocation.
C26_SessionContextBalanced ==
    /\ [](/\ (InInvocation /\ otel # "unavailable") => otel = "attached"
          /\ pc = "done" => otel # "attached"
          /\ otel = "attached" => InInvocation)
    /\ [][/\ (otel = "attached" /\ otel' # "attached") =>
                (pc = "exit" /\ stack = <<>> /\ pc' = "done" /\ otel' = "detached")
          /\ (otel # "attached" /\ otel' = "attached") =>
                (pc = "idle" /\ pc' = "gateway")]_vars

\* C26 witness: the context was attached, the agent call raised, the release
\* of a connection raised too, and the context is detached at the end.
C26_Witness ==
    /\ pc = "done"
    /\ result = "raised"
    /\ otel = "detached"
    /\ \E k \in DOMAIN events : events[k].op = "agent" /\ ~events[k].ok
    /\ SomeCloseRaised


\* ------------------------------------------------- steampipe query engine

InitSteampipe ==
    /\ IdleOutsideSteampipe
    /\ has_psycopg2 \in BOOLEAN
    /\ sp_pc = "start"
    /\ sp_calls = <<>>
    /\ sp_result = NoResult

\* _run_steampipe_query is entered: the service when psycopg2 was imported,
\* the CLI otherwise.
RunSteampipeQuery ==
    /\ sp_pc = "start"
    /\ sp_pc' = IF has_psycopg2 THEN "pg" ELSE "cli"
    /\ UNCHANGED <<has_psycopg2, sp_calls, sp_result, OutsideSteampipe>>

\* The service is queried; its result is returned unless it failed and the
\* error text asks for the fallback.
QueryPg ==
    /\ sp_pc = "pg"
    /\ \E o \in PgOutcomes :
        LET res == RunSteampipeQueryPg(o) IN
        /\ sp_calls' = Append(sp_calls, [engine |-> "pg", phase |-> o.phase, result |-> res])
        /\ IF res.success \/ ~FallsBack(res)
           THEN sp_result' = res /\ sp_pc' = "done"
           ELSE sp_result' = sp_result /\ sp_pc' = "cli"
    /\ UNCHANGED <<has_psycopg2, OutsideSteampipe>>

\* The CLI subprocess is run and its result returned.
QuerySubprocess ==
    /\ sp_pc = "cli"
    /\ \E o \in CliOutcomes :
        LET res == RunSteampipeQuerySubprocess(o) IN
        /\ sp_calls' = Append(sp_calls, [engine |-> "cli", phase |-> o, result |-> res])
        /\ sp_result' = res
    /\ sp_pc' = "done"
    /\ UNCHANGED <<has_psycopg2, OutsideSteampipe>>

NextSteampipe == RunSteampipeQuery \/ QueryPg \/ QuerySubprocess

SpecSteampipe == InitSteampipe /\ [][NextSteampipe]_vars

\* The calls made on the engine named e.
EngineCalls(e) == { k \in DOMAIN sp_calls : sp_calls[k].engine = e }

\* C21: steampipe two-tier fallback. When _run_steampipe_query has returned:
\* with psycopg2 available the service was called first, and rows it fetched
\* are returned without a CLI call; the CLI was called exactly when psycopg2
\* is not installed or the service could not be connected to; and a query
\* error of a service that was connected to is returned as it is, without a
\* CLI call.
C21_TwoTierFallback ==
    sp_pc = "done" =>
        /\ has_psycopg2 => (sp_calls # <<>> /\ sp_calls[1].engine = "pg")
        /\ ~has_psycopg2 => EngineCalls("pg") = {}
        /\ \A k \in EngineCalls("pg") :
             /\ sp_calls[k].phase = "rows" =>
                   (EngineCalls("cli") = {} /\ sp_result = sp_calls[k].result)
             /\ sp_calls[k].phase = "query" =>
                   (EngineCalls("cli") = {} /\ sp_result = sp_calls[k].result)
        /\ EngineCalls("cli") # {} <=>
             \/ ~has_psycopg2
             \/ \E k \in EngineCalls("pg") : sp_calls[k].phase = "connect"


\* ------------------------------------------------- resource inventory

InitInventory ==
    /\ IdleOutsideInventory
    /\ resource_type \in ResourceTypes
    /\ limit \in Limits
    /\ pages \in PagesOf(resource_type)
    /\ page_no = 1
    /\ collected = <<>>
    /\ ls_pc = "start"
    /\ ls_result = NoListing

\* list_resources_by_type is entered: an unknown type is answered at once, a
\* sliced type by one call and a slice, a paginated type starts its paginator;
\* an exception of boto3 becomes an error result.
ListResourcesByType ==
    /\ ls_pc = "start"
    /\ IF resource_type \notin SupportedTypes
       THEN ls_result' = UnknownType /\ ls_pc' = "done"
       ELSE \E raises \in BOOLEAN :
            IF raises
            THEN ls_result' = ListingError(resource_type) /\ ls_pc' = "done"
            ELSE IF resource_type \in PaginatedTypes
            THEN ls_result' = ls_result /\ ls_pc' = "paging"
            ELSE /\ ls_result' = Listing(resource_type,
                                         Slice(Range(1, pages[1][1]), limit))
                 /\ ls_pc' = "done"
    /\ UNCHANGED <<resource_type, limit, pages, page_no, collected,
                   OutsideInventory>>

\* One page of the paginator: fetched and walked, or the fetch raises.
ListPage ==
    /\ ls_pc = "paging"
    /\ page_no <= Len(pages)
    /\ \E raises \in BOOLEAN :
         IF raises
         THEN /\ ls_result' = ListingError(resource_type)
              /\ ls_pc' = "done"
              /\ UNCHANGED <<page_no, collected>>
         ELSE LET it == AppendPage(collected, pages[page_no], limit) IN
              /\ collected' = it
              /\ page_no' = page_no + 1
              /\ IF Len(it) >= limit
                 THEN ls_result' = Listing(resource_type, it) /\ ls_pc' = "done"
                 ELSE ls_result' = ls_result /\ ls_pc' = "paging"
    /\ UNCHANGED <<resource_type, limit, pages, OutsideInventory>>

\* The paginator is exhausted: the list is returned.
ListReturn ==
    /\ ls_pc = "paging"
    /\ page_no > Len(pages)
    /\ ls_result' = Listing(resource_type, collected)
    /\ ls_pc' = "done"
    /\ UNCHANGED <<resource_type, limit, pages, page_no, collected,
                   OutsideInventory>>

NextInventory == ListResourcesByType \/ ListPage \/ ListReturn

SpecInventory == InitInventory /\ [][NextInventory]_vars

\* C22: limit is the maximum number of results. When list_resources_by_type
\* has returned: for a supported type a listing has count = len(resources)
\* and count <= limit, whatever the limit; for an unsupported type the result
\* carries an error and no resource list; and a result was returned in every
\* case (nothing was raised).
C22_LimitIsMaximum ==
    ls_pc = "done" =>
        /\ ls_result.keys # {}
        /\ (resource_type \in SupportedTypes /\ "resources" \in ls_result.keys) =>
              /\ ls_result.count = Len(ls_result.resources)
              /\ ls_result.count <= limit
        /\ resource_type \notin SupportedTypes =>
              ("error" \in ls_result.keys /\ "resources" \notin ls_result.keys)


\* ------------------------------------------------- read_config

InitReadConfig ==
    /\ IdleOutsideReadConfig
    /\ file_path \in Extensions
    /\ on_disk \in {"missing", "directory", "file"}
    /\ file_text \in Contents
    /\ rc_pc = "start"
    /\ rc_out = NoOutcome

\* os.path.exists(file_path).
ReadConfigExists ==
    /\ rc_pc = "start"
    /\ IF on_disk = "missing"
       THEN rc_out' = Raised("FileNotFoundError") /\ rc_pc' = "done"
       ELSE rc_out' = rc_out /\ rc_pc' = "open"
    /\ UNCHANGED <<file_path, on_disk, file_text, OutsideReadConfig>>

\* splitext of the lower-cased path and open: the extension picks the parser.
ReadConfigOpen ==
    /\ rc_pc = "open"
    /\ IF on_disk = "directory"
       THEN rc_out' = Raised("IsADirectoryError") /\ rc_pc' = "done"
       ELSE /\ rc_out' = rc_out
            /\ rc_pc' = IF LowerExt(file_path) = ".json" THEN "json"
                        ELSE IF LowerExt(file_path) \in {".yaml", ".yml"} THEN "yaml"
                        ELSE "json_then_yaml"
    /\ UNCHANGED <<file_path, on_disk, file_text, OutsideReadConfig>>

\* json.load(f), or json.loads(content) whose JSONDecodeError is caught.
ReadConfigJson ==
    /\ rc_pc \in {"json", "json_then_yaml"}
    /\ LET out == JsonLoad(file_text) IN
       IF rc_pc = "json_then_yaml" /\ out.exc = "JSONDecodeError"
       THEN rc_out' = rc_out /\ rc_pc' = "yaml"
       ELSE rc_out' = out /\ rc_pc' = "done"
    /\ UNCHANGED <<file_path, on_disk, file_text, OutsideReadConfig>>

\* yaml.safe_load.
ReadConfigYaml ==
    /\ rc_pc = "yaml"
    /\ rc_out' = YamlSafeLoad(file_text)
    /\ rc_pc' = "done"
    /\ UNCHANGED <<file_path, on_disk, file_text, OutsideReadConfig>>

NextReadConfig == ReadConfigExists \/ ReadConfigOpen \/ ReadConfigJson \/ ReadConfigYaml

SpecReadConfig == InitReadConfig /\ [][NextReadConfig]_vars

\* The file's text is a document of the format its extension stands for.
Parsable ==
    IF LowerExt(file_path) = ".json" THEN file_text = "json_doc"
    ELSE file_text \in {"json_doc", "yaml_doc"}

\* C23: read_config's error contract. When read_config has ended: for a path
\* that does not exist it raised FileNotFoundError; for an existing file
\* whose text is a document of the format of its extension it returned the
\* document, parsed as JSON for .json, as YAML for .yaml and .yml, and as JSON
\* or else YAML for any other extension; and for an existing file whose
\* content cannot be parsed it raised a ValueError.
C23_ReadConfigContract ==
    rc_pc = "done" =>
        /\ on_disk = "missing" =>
              (rc_out.kind = "raised" /\ rc_out.exc = "FileNotFoundError")
        /\ (on_disk = "file" /\ Parsable) =>
              /\ rc_out.kind = "returned"
              /\ rc_out.doc = file_text
              /\ rc_out.parser =
                    IF LowerExt(file_path) = ".json" THEN "json"
                    ELSE IF LowerExt(file_path) \in {".yaml", ".yml"} THEN "yaml"
                    ELSE IF file_text = "json_doc" THEN "json" ELSE "yaml"
        /\ (on_disk = "file" /\ ~Parsable) =>
              (rc_out.kind = "raised" /\ "ValueError" \in Bases(rc_out.exc))


\* ------------------------------------------------- MCP tool client

InitClient ==
    /\ IdleOutsideClient
    /\ http_client = "none"
    /\ local_processes = {}
    /\ procs = <<>>
    /\ mc_pc = "created"
    /\ last_call = NoCall
    /\ ncalls = 0

\* __aenter__.
AEnter ==
    /\ mc_pc = "created"
    /\ http_client' = "open"
    /\ mc_pc' = "entered"
    /\ UNCHANGED <<local_processes, procs, last_call, ncalls, OutsideClient>>

\* call_tool without a gateway endpoint: _call_local and _get_or_start_server.
\* Popen starts the process or raises; the exchange with the process follows.
CallLocal(server_name) ==
    /\ mc_pc \in {"created", "entered"}
    /\ ncalls < MaxCalls
    /\ ncalls' = ncalls + 1
    /\ LET before == Tracked(local_processes, server_name)
           was_running == before # NoProcess /\ procs[before].state = "running"
           call == [server |-> server_name, before |-> before,
                    was_running |-> was_running, outcome |-> "none",
                    process |-> NoProcess, started |-> NoProcess]
       IN
       IF server_name \notin ConfiguredServers
       THEN /\ last_call' = [call EXCEPT !.outcome = "ValueError"]
            /\ UNCHANGED <<local_processes, procs>>
       ELSE IF ~NeedsSpawn(local_processes, procs, server_name)
       THEN /\ last_call' = [call EXCEPT !.outcome = "exchange", !.process = before]
            /\ UNCHANGED <<local_processes, procs>>
       ELSE \E popen_raises \in BOOLEAN :
            IF popen_raises
            THEN /\ last_call' = [call EXCEPT !.outcome = "OSError"]
                 /\ UNCHANGED <<local_processes, procs>>
            ELSE LET process == Len(procs) + 1 IN
                 /\ procs' = Append(procs, [server |-> server_name, state |-> "running"])
                 /\ local_processes' = DictSet(local_processes, server_name, process)
                 /\ last_call' = [call EXCEPT !.outcome = "exchange",
                                              !.process = process, !.started = process]
    /\ UNCHANGED <<http_client, mc_pc, OutsideClient>>

\* A server process ends by itself.
ProcessExits(p) ==
    /\ mc_pc \in {"created", "entered"}
    /\ procs[p].state = "running"
    /\ procs' = [procs EXCEPT ![p].state = "exited"]
    /\ UNCHANGED <<http_client, local_processes, mc_pc, last_call, ncalls, OutsideClient>>

\* __aexit__: the HTTP client is closed, then every tracked process is
\* terminated; when aclose raises, __aexit__ ends there.
AExit ==
    /\ mc_pc = "entered"
    /\ \E aclose_raises \in BOOLEAN :
         IF aclose_raises
         THEN /\ mc_pc' = "exit_raised"
              /\ UNCHANGED <<http_client, procs>>
         ELSE /\ mc_pc' = "exited"
              /\ http_client' = "closed"
              /\ procs' = [p \in DOMAIN procs |->
                             IF <<procs[p].server, p>> \in local_processes
                             THEN Terminate(procs[p]) ELSE procs[p]]
    /\ UNCHANGED <<local_processes, last_call, ncalls, OutsideClient>>

NextClient ==
    \/ AEnter
    \/ \E server_name \in ServerNames : CallLocal(server_name)
    \/ \E p \in DOMAIN procs : ProcessExits(p)
    \/ AExit

SpecClient == InitClient /\ [][NextClient]_vars

\* The processes tracked under a server name.
TrackedUnder(name) == { e \in local_processes : e[1] = name }

\* C27: local server processes are started or reused. After any sequence of
\* local call_tool calls at most one process is tracked per server name, and
\* every tracked process was started for that name; the last call reused the
\* tracked process and started nothing when that process was still running,
\* started a process only when none was tracked for the server or the tracked
\* one had exited, and for a server absent from the configuration raised
\* ValueError, started nothing and left nothing tracked under that name.
C27_StartOrReuse ==
    /\ \A name \in ServerNames : Cardinality(TrackedUnder(name)) <= 1
    /\ \A e \in local_processes :
         e[2] \in DOMAIN procs /\ procs[e[2]].server = e[1]
    /\ \A name \in ServerNames \ ConfiguredServers : TrackedUnder(name) = {}
    /\ last_call.outcome # "none" =>
         /\ last_call.was_running =>
               (last_call.started = NoProcess /\ last_call.process = last_call.before)
         /\ last_call.started # NoProcess =>
               (last_call.before = NoProcess \/ ~last_call.was_running)
         /\ last_call.server \notin ConfiguredServers =>
               (last_call.outcome = "ValueError" /\ last_call.started = NoProcess)
    /\ Len(procs) <= ncalls

\* C27 witness: a server was started, reused by a second call while it was
\* running, and the call made after it had exited started a second process,
\* which replaced it as the one tracked.
C27_Witness ==
    /\ ncalls = 3
    /\ Len(procs) = 2
    /\ procs[1].server = "aws-ccapi" /\ procs[1].state = "exited"
    /\ procs[2].server = "aws-ccapi" /\ procs[2].state = "running"
    /\ local_processes = {<<"aws-ccapi", 2>>}
    /\ last_call.started = 2

\* C28: on exit of the async context every local server process started
\* during the context is terminated, also when closing the HTTP client
\* failed: once __aexit__ has ended, by returning or by raising, no started
\* process is running.
C28_AllTerminatedOnExit ==
    mc_pc \in {"exited", "exit_raised"} =>
        \A p \in DOMAIN procs : procs[p].state # "running"


\* ------------------------------------------------- IAM credential report

InitIam ==
    /\ IdleOutsideIam
    /\ iam_pc = "generate"
    /\ poll_log = <<>>
    /\ sleeps = 0
    /\ report = <<>>
    /\ iam_result = NoReport

\* client.generate_credential_report(): returns, or raises into the handler.
GenerateCredentialReport ==
    /\ iam_pc = "generate"
    /\ \E raises \in BOOLEAN :
         IF raises
         THEN iam_result' = ReportError("exception") /\ iam_pc' = "done"
         ELSE iam_result' = iam_result /\ iam_pc' = "poll"
    /\ UNCHANGED <<poll_log, sleeps, report, OutsideIam>>

\* One iteration of for _ in range(10): the report is fetched and the loop
\* left, or the report is not ready and the loop sleeps, or another exception
\* goes to the handler.
Poll ==
    /\ iam_pc = "poll"
    /\ Len(poll_log) < MaxAttempts
    /\ \E outcome \in PollOutcomes :
         /\ poll_log' = Append(poll_log, outcome)
         /\ IF outcome = "report"
            THEN /\ \E rows \in Reports : report' = rows
                 /\ iam_pc' = "parse"
                 /\ UNCHANGED <<sleeps, iam_result>>
            ELSE IF Retries(outcome)
            THEN /\ sleeps' = sleeps + 1
                 /\ UNCHANGED <<iam_pc, report, iam_result>>
            ELSE /\ iam_result' = ReportError("exception")
                 /\ iam_pc' = "done"
                 /\ UNCHANGED <<sleeps, report>>
    /\ UNCHANGED OutsideIam

\* The else clause of the for loop: the range is exhausted.
TimedOut ==
    /\ iam_pc = "poll"
    /\ Len(poll_log) >= MaxAttempts
    /\ iam_result' = ReportError("Credential report generation timed out")
    /\ iam_pc' = "done"
    /\ UNCHANGED <<poll_log, sleeps, report, OutsideIam>>

\* The report is decoded and analysed, or that raises into the handler.
ParseReport ==
    /\ iam_pc = "parse"
    /\ \E raises \in BOOLEAN :
         iam_result' = IF raises THEN ReportError("exception") ELSE Analysis(report)
    /\ iam_pc' = "done"
    /\ UNCHANGED <<poll_log, sleeps, report, OutsideIam>>

NextIam == GenerateCredentialReport \/ Poll \/ TimedOut \/ ParseReport

SpecIam == InitIam /\ [][NextIam]_vars

\* C29: the polling is bounded. At most 10 polls are made and one sleep
\* follows each not-ready poll; every poll before the last was not-ready, so
\* the polling stops at the first poll that returns the report or raises
\* something else; when the call has ended a result was returned: the error
\* 'Credential report generation timed out' exactly when 10 polls were
\* not-ready, an error result when generation, a poll or the analysis raised
\* another exception, and the analysis of the fetched report otherwise.
C29_PollingBounded ==
    /\ Len(poll_log) <= 10
    /\ \A k \in 1..(Len(poll_log) - 1) : poll_log[k] = "not_ready"
    /\ sleeps = Cardinality({ k \in DOMAIN poll_log : poll_log[k] = "not_ready" })
    /\ iam_pc = "done" =>
         /\ iam_result.kind \in {"analysis", "error"}
         /\ (iam_result.error = "Credential report generation timed out") <=>
               (Len(poll_log) = 10 /\ \A k \in DOMAIN poll_log : poll_log[k] = "not_ready")
         /\ (\E k \in DOMAIN poll_log : poll_log[k] = "exception") =>
               iam_result.kind = "error"
         /\ iam_result.kind = "analysis" =>
               /\ poll_log # <<>> /\ poll_log[Len(poll_log)] = "report"
               /\ iam_result.total_users = Len(report)

\* C29 witness: the report was not ready ten times and the call returned the
\* timed-out error.
C29_Witness ==
    /\ iam_pc = "done"
    /\ Len(poll_log) = 10
    /\ sleeps = 10
    /\ iam_result.error = "Credential report generation timed out"


\* ------------------------------------------------- dashboard authentication

InitAuth ==
    /\ IdleOutsideAuth
    /\ auth_user = NoUser
    /\ auth_challenge = FALSE
    /\ auth_challenge_username = NoUser
    /\ pending_confirmation = NoUser
    /\ chat_agent = "absent"
    /\ chat_messages = NoMessages
    /\ chat_session_id = "absent"
    /\ gate = NoUser
    /\ cognito = NoCognitoCall
    /\ last_run = "none"

\* A script run of the chat page with nobody signed in and nothing pending:
\* require_auth shows the tabs and returns None; the login form may have been
\* submitted.
RunLoginForm ==
    /\ auth_user = NoUser /\ ~auth_challenge /\ pending_confirmation = NoUser
    /\ gate' = NoUser
    /\ last_run' = "login"
    /\ \E filled \in BOOLEAN, username \in Users, outcome \in InitiateAuthOutcomes :
         IF ~filled
         THEN /\ cognito' = NoCognitoCall
              /\ UNCHANGED <<auth_user, auth_challenge, auth_challenge_username>>
         ELSE LET res == Login(username, outcome) IN
              /\ cognito' = CognitoCall("initiate_auth", outcome)
              /\ IF LoginSetsUser(res)
                 THEN /\ auth_user' = res.username
                      /\ UNCHANGED <<auth_challenge, auth_challenge_username>>
                 ELSE IF res.kind = "challenge"
                 THEN /\ auth_challenge' = TRUE
                      /\ auth_challenge_username' = res.username
                      /\ auth_user' = auth_user
                 ELSE UNCHANGED <<auth_user, auth_challenge, auth_challenge_username>>
    /\ UNCHANGED <<pending_confirmation, chat_agent, chat_messages, chat_session_id,
                   OutsideAuth>>

\* The same run with the signup form submitted.
RunSignupForm ==
    /\ auth_user = NoUser /\ ~auth_challenge /\ pending_confirmation = NoUser
    /\ gate' = NoUser
    /\ last_run' = "signup"
    /\ \E username \in Users, signed_up \in BOOLEAN :
         /\ cognito' = CognitoCall("sign_up", IF signed_up THEN "ok" ELSE "exception")
         /\ pending_confirmation' = IF signed_up THEN username ELSE pending_confirmation
    /\ UNCHANGED <<auth_user, auth_challenge, auth_challenge_username, chat_agent, chat_messages, chat_session_id,
                   OutsideAuth>>

\* A run while the challenge is pending: require_auth shows the new password
\* form and returns None.
RunNewPasswordForm ==
    /\ auth_user = NoUser /\ auth_challenge
    /\ gate' = NoUser
    /\ last_run' = "new_password"
    /\ \E entry \in {"empty", "mismatch", "match"}, succeeds \in BOOLEAN :
         IF entry # "match"
         THEN /\ cognito' = NoCognitoCall
              /\ UNCHANGED <<auth_user, auth_challenge, auth_challenge_username>>
         ELSE LET res == RespondToNewPasswordChallenge(auth_challenge_username, succeeds) IN
              /\ cognito' = CognitoCall("respond_to_auth_challenge",
                                        IF succeeds THEN "tokens" ELSE "exception")
              /\ IF res.kind # "None"
                 THEN /\ auth_challenge' = FALSE
                      /\ auth_challenge_username' = NoUser
                      /\ auth_user' = res.username
                 ELSE UNCHANGED <<auth_user, auth_challenge, auth_challenge_username>>
    /\ UNCHANGED <<pending_confirmation, chat_agent, chat_messages, chat_session_id,
                   OutsideAuth>>

\* A run while a confirmation is pending: require_auth shows the code form
\* and returns None.
RunConfirmationForm ==
    /\ auth_user = NoUser /\ ~auth_challenge /\ pending_confirmation # NoUser
    /\ gate' = NoUser
    /\ last_run' = "confirmation"
    /\ \E confirmed \in BOOLEAN :
         /\ cognito' = CognitoCall("confirm_sign_up", IF confirmed THEN "ok" ELSE "exception")
         /\ pending_confirmation' = IF confirmed THEN NoUser ELSE pending_confirmation
    /\ UNCHANGED <<auth_user, auth_challenge, auth_challenge_username, chat_agent, chat_messages, chat_session_id,
                   OutsideAuth>>

\* A run with a user signed in: require_auth returns the user, the page sets
\* up its session keys, and the user looks at the page, clicks an example
\* question, resets the conversation, sends a message or logs out; a last
\* message of the user is answered by the agent when there is one.
RunPage ==
    /\ auth_user # NoUser
    /\ gate' = auth_user
    /\ cognito' = NoCognitoCall
    /\ \E does \in {"view", "example", "reset", "chat", "logout"},
          created \in BOOLEAN, agent_raises \in BOOLEAN :
         LET list == chat_messages.list
             agent0 == IF chat_agent = "absent" THEN "None" ELSE chat_agent
             asked == IF does = "chat" THEN Append(list, Message("user", "typed")) ELSE list
             agent1 == IF AwaitsAnswer(asked) THEN GetAgent(agent0, created) ELSE agent0
             answered == IF AwaitsAnswer(asked) /\ agent1 = "agent"
                         THEN Append(asked, Message("assistant",
                                        IF agent_raises THEN "error" ELSE "answer"))
                         ELSE asked
         IN
         /\ last_run' = does
         /\ IF does = "logout"
            THEN /\ auth_user' = NoUser
                 /\ chat_agent' = "absent"
                 /\ chat_messages' = NoMessages
                 /\ chat_session_id' = "absent"
            ELSE /\ auth_user' = auth_user
                 /\ chat_session_id' = "set"
                 /\ IF does = "example"
                    THEN /\ Len(list) < MaxMessages
                         /\ chat_messages' = Messages(Append(list, Message("user", "example")))
                         /\ chat_agent' = agent0
                    ELSE IF does = "reset"
                    THEN /\ chat_messages' = Messages(<<>>)
                         /\ chat_agent' = "None"
                    ELSE /\ Len(answered) <= MaxMessages
                         /\ chat_messages' = Messages(answered)
                         /\ chat_agent' = agent1
    /\ UNCHANGED <<auth_challenge, auth_challenge_username, pending_confirmation,
                   OutsideAuth>>

NextAuth ==
    \/ RunLoginForm
    \/ RunSignupForm
    \/ RunNewPasswordForm
    \/ RunConfirmationForm
    \/ RunPage

SpecAuth == InitAuth /\ [][NextAuth]_vars

\* The Cognito responses that sign a user in.
SignsIn ==
    { CognitoCall("initiate_auth", "tokens"),
      CognitoCall("respond_to_auth_challenge", "tokens") }

\* C30: the dashboard authentication gate. In every sequence of login,
\* challenge, signup, confirmation and logout steps: auth_user becomes set
\* only in a run whose Cognito call was a login that returned tokens or a
\* NEW_PASSWORD_REQUIRED response that succeeded, and no challenge is pending
\* then; require_auth returns a user only in a run that began with auth_user
\* set, and returns that user; auth_user is unset only by logout; and after
\* logout auth_user, the agent, the messages and the chat session id are
\* gone, so require_auth returns None until another authentication.
C30_AuthGate ==
    /\ [](/\ last_run = "logout" =>
               /\ auth_user = NoUser
               /\ chat_agent = "absent"
               /\ chat_messages = NoMessages
               /\ chat_session_id = "absent"
          /\ auth_user # NoUser => ~auth_challenge)
    /\ [][/\ gate' # NoUser => (auth_user # NoUser /\ gate' = auth_user)
          /\ auth_user = NoUser => gate' = NoUser
          /\ (auth_user = NoUser /\ auth_user' # NoUser) => cognito' \in SignsIn
          /\ (auth_user # NoUser /\ auth_user' # auth_user) =>
                (last_run' = "logout" /\ auth_user' = NoUser)]_vars

\* C30 witness: a user is signed in by a successful answer to the
\* NEW_PASSWORD_REQUIRED challenge, require_auth having returned None in that
\* run.
C30_Witness ==
    /\ auth_user # NoUser
    /\ gate = NoUser
    /\ ~auth_challenge
    /\ auth_challenge_username = NoUser
    /\ cognito = CognitoCall("respond_to_auth_challenge", "tokens")

====
